---- MODULE Spec2Model ----
(***************************************************************************)
(* SOSBridge call-session orchestration: the fixed-window rate limiter,    *)
(* the admission control of the Conversation, the Conversation lifecycle   *)
(* and the session registry, as driven by the HTTP and socket handlers.    *)
(* Time is Date.now() in milliseconds.                                     *)
(***************************************************************************)
EXTENDS Integers, Sequences, FiniteSets, TLC

(* ---------------- program constants ---------------- *)
MAX_CALLS_PER_SESSION == 1
MAX_CALLS_PER_MINUTE == 3
MAX_CALLS_PER_HOUR == 10
CALL_COOLDOWN_MS == 30000
HourMs == 3600000
MinuteMs == 60000
SweepMs == 60000
ApiMaxRequests == 5
ApiWindowMs == 60
RetryAfterSecs == 30
\* RATE_LIMITING.md: requests per hour and client address
DocEmergencyPerHour == 5
DocElevenLabsPerHour == 10

(* ---------------- bounds of the model ---------------- *)
\* clock readings of the lifecycle runs: MaxSteps steps of half a cooldown, then
\* one jump of an hour
MaxSteps == 2
\* clock readings of the admission runs: MaxStepsAdm steps of a minute
MaxStepsAdm == 3
\* HTTP requests handled in one behaviour
MaxRequests == 3
MaxRequestsAdm == 11
\* Conversation objects ever created for the tracked sessions
MaxConvs == 2
\* rate limiter on its own: limits, windows and clock
MaxN == 2
MaxW == 3
MaxTimeRL == 3

\* messaging runs: inbound messages per socket, joins per Conversation, sends
MaxRequestsConv == 1
MaxInbound == 2
MaxJoins == 1
MaxSends == 2
\* intake and shutdown runs: requests handled, shutdown signals delivered
MaxReports == 2
MaxSignals == 1
\* calls of startRateLimitCleanup, the one at module load included
MaxStarts == 3

Sessions == {"s1"}
\* the session ids that the intake generates
IntakeSessions == {"e1"}
AllSessions == Sessions \cup IntakeSessions
ClientIPs == {"ip1"}
RLIdentifiers == {"a", "b"}
ConvIds == 1..MaxConvs
\* one channel per admitted call
WsIds == 1..Cardinality(AllSessions)

VARIABLES
  now,             \* Date.now()
  rateLimitStore,  \* utils.ts rateLimitStore: <<identifier, bucket>> -> [count, resetTime]
  globalCalls,     \* rateLimitState.globalCalls
  sessionCalls,    \* rateLimitState.sessionCalls (a partial map)
  conversations,   \* the registry: sessionId -> Conversation object (0: no entry)
  conv,            \* the Conversation objects
  wsock,           \* the WebSocket objects made by openConvWS
  inflight,        \* handlers suspended at an await: [s, c, op]; op says which await
  resp,            \* the outcome of the last HTTP handler step (status 0: suspended,
                   \* no response yet)
  requests,        \* number of HTTP requests handled so far
  admitted,        \* history: the time of every admission recorded by markCallInitiated
  grants,          \* history: admissions per tracked session
  endedEmitted,    \* history: 'ended' events emitted per Conversation object (2: more than one)
  events,          \* history: per Conversation object, the events it emitted, in order
  listeners,       \* per Conversation object, how many clients' listeners are registered
  timers,          \* join-session fallback timers set and not yet fired
  clientOut,       \* what the socket server emitted to the joined client, in order
  inbox,           \* history: per socket, the InboundMessages delivered, in order
  written,         \* history: per socket, the payloads written to it, in order
  lastSend,        \* history: the number of sendMessage calls and the last one's outcome
  proc,            \* the process: the sweep timer, pending exit timers, exit
  rlN, rlW,        \* inputs of the stand-alone limiter runs
  rlLast,          \* the last stand-alone checkRateLimit call and its result
  rlUnswept,       \* the stand-alone calls repeated on a store that no sweep
                   \* touches: that store and the result of the last call on it
  rlSeen           \* history: per identifier, its calls in the bucket of its latest call
                   \* and the times of its allowed calls in the windowMs before it

vars == <<now, rateLimitStore, globalCalls, sessionCalls, conversations, conv, wsock,
          inflight, resp, requests, admitted, grants, endedEmitted, events,
          listeners, timers, clientOut, inbox, written, lastSend, proc, rlN, rlW, rlLast,
          rlUnswept, rlSeen>>

convVars == <<globalCalls, sessionCalls, conversations, conv, wsock, inflight, resp,
              requests, admitted, grants, endedEmitted, events, listeners, timers, clientOut,
              inbox, written, lastSend, proc>>
rlVars == <<rlN, rlW, rlLast, rlUnswept, rlSeen>>

\* the event log of the Conversations and what reaches the client
emitVars == <<events, clientOut>>

\* the relay's registrations and the traffic of the channel
relayVars == <<listeners, timers, inbox, written, lastSend>>

(* ---------------- helpers ---------------- *)
Put(f, k, v) == [x \in (DOMAIN f) \cup {k} |-> IF x = k THEN v ELSE f[x]]

\* Math.ceil(a / b) for b > 0
CeilDiv(a, b) == IF a >= 0 THEN (a + b - 1) \div b ELSE -((-a) \div b)

Min2(a, b) == IF a < b THEN a ELSE b

(* ---------------- rate limiter (utils.ts checkRateLimit) ---------------- *)
RLKey(identifier, windowMs, t) == <<identifier, t \div windowMs>>

checkRateLimit_offByOne(store, identifier, maxRequests, windowMs, t) ==
  LET key == RLKey(identifier, windowMs, t) IN
  IF key \notin DOMAIN store \/ t > store[key].resetTime
  THEN [store |-> Put(store, key, [count |-> 1, resetTime |-> t + windowMs]),
        allowed |-> TRUE, remaining |-> maxRequests - 1, resetTime |-> t + windowMs]
  ELSE IF store[key].count > maxRequests
  THEN [store |-> store, allowed |-> FALSE, remaining |-> 0,
        resetTime |-> store[key].resetTime]
  ELSE [store |-> Put(store, key, [count |-> store[key].count + 1,
                                   resetTime |-> store[key].resetTime]),
        allowed |-> TRUE, remaining |-> maxRequests - (store[key].count + 1),
        resetTime |-> store[key].resetTime]

checkRateLimit(store, identifier, maxRequests, windowMs, t) ==
  LET key == RLKey(identifier, windowMs, t) IN
  IF key \notin DOMAIN store \/ t > store[key].resetTime
  THEN [store |-> Put(store, key, [count |-> 1, resetTime |-> t + windowMs]),
        allowed |-> TRUE, remaining |-> maxRequests - 1, resetTime |-> t + windowMs]
  ELSE IF store[key].count >= maxRequests
  THEN [store |-> store, allowed |-> FALSE, remaining |-> 0,
        resetTime |-> store[key].resetTime]
  ELSE [store |-> Put(store, key, [count |-> store[key].count + 1,
                                   resetTime |-> store[key].resetTime]),
        allowed |-> TRUE, remaining |-> maxRequests - (store[key].count + 1),
        resetTime |-> store[key].resetTime]

\* variant: every bucket is deleted
sweepRateLimitStore_all(store, t) == <<>>

\* the body of the cleanup timer: delete every bucket whose resetTime has passed
sweepRateLimitStore(store, t) ==
  [k \in {x \in DOMAIN store : ~(t > store[x].resetTime)} |-> store[k]]

\* the cleanup timer is armed at module load (time 0) and fires every SweepMs;
\* its last firing at or before time t
LastSweepAt(t) == (t \div SweepMs) * SweepMs

\* the store after the clock went from t to t2: the timer firings in (t, t2]
\* have run, the last one at LastSweepAt(t2)
StoreAfter(store, t, t2) ==
  IF LastSweepAt(t2) > t THEN sweepRateLimitStore(store, LastSweepAt(t2)) ELSE store

(* ---------------- admission control (conversation.ts) ---------------- *)
\* variant: the hour filter with the minute's width
WithinHour_minuteWide(calls, t) == SelectSeq(calls, LAMBDA ts : t - ts < MinuteMs)

WithinHour(calls, t) == SelectSeq(calls, LAMBDA ts : t - ts < HourMs)

WithinMinute(calls, t) == SelectSeq(calls, LAMBDA ts : t - ts < MinuteMs)

\* variant: the session count compared with > instead of >=
isRateLimited_sessionOffByOne(calls, sCalls, sessionId, t) ==
  LET pruned == WithinHour(calls, t)
      hourlyCalls == Len(WithinHour(pruned, t))
      minuteCalls == Len(WithinMinute(pruned, t))
  IN
  IF hourlyCalls >= MAX_CALLS_PER_HOUR
  THEN [calls |-> pruned, limited |-> TRUE, reason |-> "Hourly call limit exceeded"]
  ELSE IF minuteCalls >= MAX_CALLS_PER_MINUTE
  THEN [calls |-> pruned, limited |-> TRUE, reason |-> "Minute call limit exceeded"]
  ELSE IF sessionId \in DOMAIN sCalls
          /\ t - sCalls[sessionId].lastCall < CALL_COOLDOWN_MS
  THEN [calls |-> pruned, limited |-> TRUE, reason |-> "Call cooldown period active"]
  ELSE IF sessionId \in DOMAIN sCalls
          /\ sCalls[sessionId].count > MAX_CALLS_PER_SESSION
  THEN [calls |-> pruned, limited |-> TRUE, reason |-> "Session call limit exceeded"]
  ELSE [calls |-> pruned, limited |-> FALSE, reason |-> "none"]

\* variant: the minute ceiling tested before the hourly one
isRateLimited_minuteFirst(calls, sCalls, sessionId, t) ==
  LET pruned == WithinHour(calls, t)
      hourlyCalls == Len(WithinHour(pruned, t))
      minuteCalls == Len(WithinMinute(pruned, t))
  IN
  IF minuteCalls >= MAX_CALLS_PER_MINUTE
  THEN [calls |-> pruned, limited |-> TRUE, reason |-> "Minute call limit exceeded"]
  ELSE IF hourlyCalls >= MAX_CALLS_PER_HOUR
  THEN [calls |-> pruned, limited |-> TRUE, reason |-> "Hourly call limit exceeded"]
  ELSE IF sessionId \in DOMAIN sCalls
          /\ t - sCalls[sessionId].lastCall < CALL_COOLDOWN_MS
  THEN [calls |-> pruned, limited |-> TRUE, reason |-> "Call cooldown period active"]
  ELSE IF sessionId \in DOMAIN sCalls
          /\ sCalls[sessionId].count >= MAX_CALLS_PER_SESSION
  THEN [calls |-> pruned, limited |-> TRUE, reason |-> "Session call limit exceeded"]
  ELSE [calls |-> pruned, limited |-> FALSE, reason |-> "none"]

\* variant: every check that finds a limit reached also records the attempt
isRateLimited_countsAttempts(calls, sCalls, sessionId, t) ==
  LET pruned == WithinHour(calls, t)
      hourlyCalls == Len(WithinHour(pruned, t))
      minuteCalls == Len(WithinMinute(pruned, t))
      counted == Append(pruned, t)
  IN
  IF hourlyCalls >= MAX_CALLS_PER_HOUR
  THEN [calls |-> counted, limited |-> TRUE, reason |-> "Hourly call limit exceeded"]
  ELSE IF minuteCalls >= MAX_CALLS_PER_MINUTE
  THEN [calls |-> counted, limited |-> TRUE, reason |-> "Minute call limit exceeded"]
  ELSE IF sessionId \in DOMAIN sCalls
          /\ t - sCalls[sessionId].lastCall < CALL_COOLDOWN_MS
  THEN [calls |-> counted, limited |-> TRUE, reason |-> "Call cooldown period active"]
  ELSE IF sessionId \in DOMAIN sCalls
          /\ sCalls[sessionId].count >= MAX_CALLS_PER_SESSION
  THEN [calls |-> counted, limited |-> TRUE, reason |-> "Session call limit exceeded"]
  ELSE [calls |-> pruned, limited |-> FALSE, reason |-> "none"]

\* isRateLimited: the pruned global list it leaves behind, and its verdict
isRateLimited(calls, sCalls, sessionId, t) ==
  LET pruned == WithinHour(calls, t)
      hourlyCalls == Len(WithinHour(pruned, t))
      minuteCalls == Len(WithinMinute(pruned, t))
  IN
  IF hourlyCalls >= MAX_CALLS_PER_HOUR
  THEN [calls |-> pruned, limited |-> TRUE, reason |-> "Hourly call limit exceeded"]
  ELSE IF minuteCalls >= MAX_CALLS_PER_MINUTE
  THEN [calls |-> pruned, limited |-> TRUE, reason |-> "Minute call limit exceeded"]
  ELSE IF sessionId \in DOMAIN sCalls
          /\ t - sCalls[sessionId].lastCall < CALL_COOLDOWN_MS
  THEN [calls |-> pruned, limited |-> TRUE, reason |-> "Call cooldown period active"]
  ELSE IF sessionId \in DOMAIN sCalls
          /\ sCalls[sessionId].count >= MAX_CALLS_PER_SESSION
  THEN [calls |-> pruned, limited |-> TRUE, reason |-> "Session call limit exceeded"]
  ELSE [calls |-> pruned, limited |-> FALSE, reason |-> "none"]

\* variant: the session record is computed but never stored
recordCall_noSessionSet(calls, sCalls, sessionId, t) ==
  [calls |-> Append(calls, t), sessions |-> sCalls]

\* recordCall: the global list and the session map after it
recordCall(calls, sCalls, sessionId, t) ==
  LET sessionData == IF sessionId \in DOMAIN sCalls THEN sCalls[sessionId]
                     ELSE [count |-> 0, lastCall |-> 0]
  IN [calls |-> Append(calls, t),
      sessions |-> Put(sCalls, sessionId,
                       [count |-> sessionData.count + 1, lastCall |-> t])]

(* ---------------- Conversation objects ---------------- *)
\* a slot of the object heap that holds no Conversation yet
NoConv == [alloc |-> FALSE, sessionId |-> "none", conversationId |-> 0, ws |-> 0,
           isActive |-> FALSE, callInitiated |-> FALSE]

\* new Conversation(sessionId)
NewConversation(sessionId) ==
  [alloc |-> TRUE, sessionId |-> sessionId, conversationId |-> 0, ws |-> 0,
   isActive |-> FALSE, callInitiated |-> FALSE]

\* a socket: readyState, the Conversation its handlers belong to, and whether it
\* has reported open and whether it has reported an error
NoWs == [state |-> "NONE", owner |-> 0, opened |-> FALSE, errored |-> FALSE]

\* variant: the state guards alone, isRateLimited never asked
canInitiateCall_guardsOnly(c, calls, sCalls, t) ==
  IF c.isActive /\ c.conversationId # 0
  THEN [allowed |-> FALSE, reason |-> "Call already active", calls |-> calls]
  ELSE IF c.callInitiated
  THEN [allowed |-> FALSE, reason |-> "Call already initiated", calls |-> calls]
  ELSE [allowed |-> TRUE, reason |-> "none", calls |-> calls]

\* Conversation.canInitiateCall on object c: the verdict, and the global list
\* as isRateLimited leaves it when it is reached
canInitiateCall(c, calls, sCalls, t) ==
  IF c.isActive /\ c.conversationId # 0
  THEN [allowed |-> FALSE, reason |-> "Call already active", calls |-> calls]
  ELSE IF c.callInitiated
  THEN [allowed |-> FALSE, reason |-> "Call already initiated", calls |-> calls]
  ELSE LET rateLimitCheck == isRateLimited(calls, sCalls, c.sessionId, t) IN
       IF rateLimitCheck.limited
       THEN [allowed |-> FALSE, reason |-> rateLimitCheck.reason,
             calls |-> rateLimitCheck.calls]
       ELSE [allowed |-> TRUE, reason |-> "none", calls |-> rateLimitCheck.calls]

FreeConvs(cv) == {c \in ConvIds : ~cv[c].alloc}

FreeWs(wsk) == {w \in WsIds : wsk[w].state = "NONE"}

Lowest(S) == CHOOSE x \in S : \A y \in S : x <= y

\* variant: a new Conversation is made and stored on every call
getConversation_alwaysNew(reg, cv, sessionId) ==
  IF FreeConvs(cv) = {}
  THEN [reg |-> reg, conv |-> cv, c |-> reg[sessionId]]
  ELSE LET c == Lowest(FreeConvs(cv)) IN
       [reg |-> [reg EXCEPT ![sessionId] = c],
        conv |-> [cv EXCEPT ![c] = NewConversation(sessionId)],
        c |-> c]

\* getConversation: the registry and heap after it, and the object returned
\* (c = 0: the heap of the model is exhausted)
getConversation(reg, cv, sessionId) ==
  IF reg[sessionId] # 0
  THEN [reg |-> reg, conv |-> cv, c |-> reg[sessionId]]
  ELSE IF FreeConvs(cv) = {}
  THEN [reg |-> reg, conv |-> cv, c |-> 0]
  ELSE LET c == Lowest(FreeConvs(cv)) IN
       [reg |-> [reg EXCEPT ![sessionId] = c],
        conv |-> [cv EXCEPT ![c] = NewConversation(sessionId)],
        c |-> c]

\* WebSocket.close() as end() calls it: a connecting or open socket starts closing
wsCloseCalled(state) == IF state \in {"CONNECTING", "OPEN"} THEN "CLOSING" ELSE state

Bump(n) == Min2(n + 1, 2)

(* ---------------- events of a Conversation and the relay ---------------- *)
\* a text is a sequence of characters; a fixed phrase is one unit of it
Blank == " "

\* this.emit('ended')
EndedEvent == [ev |-> "ended", role |-> "none", text |-> <<>>, timestamp |-> {}]

\* this.emit('message', {role, text}): the object has no timestamp property
\* (the empty set stands for undefined)
MessageEvent(role, text) ==
  [ev |-> "message", role |-> role, text |-> text, timestamp |-> {}]

ConnectionLost == MessageEvent("system", <<"Connection lost">>)

CallEnded == MessageEvent("system", <<"Call ended">>)

\* socket.emit('call-ended')
ClientCallEnded == [ev |-> "call-ended", text |-> <<>>, timestamp |-> {}]

\* socket.emit('error', text)
ClientError(text) == [ev |-> "error", text |-> text, timestamp |-> {}]

\* this.emit('error', new Error(text))
ErrorEvent(text) == [ev |-> "error", role |-> "none", text |-> text, timestamp |-> {}]

\* the Error that sendMessage makes of a bufferUtil failure of ws.send
ConnectionIssue == <<"WebSocket connection issue, please try again">>

\* String.prototype.trim
RECURSIVE TrimLeft(_)
TrimLeft(text) ==
  IF text # <<>> /\ Head(text) = Blank THEN TrimLeft(Tail(text)) ELSE text

RECURSIVE TrimRight(_)
TrimRight(text) ==
  IF text # <<>> /\ text[Len(text)] = Blank
  THEN TrimRight(SubSeq(text, 1, Len(text) - 1)) ELSE text

Trim(text) == TrimRight(TrimLeft(text))

\* the 'message' listener of join-session on event e: what it emits to the
\* client, or that it threw; new Date(undefined).toISOString() throws RangeError
onMessage(e) ==
  IF e.role = "callee"
  THEN IF e.timestamp = {}
       THEN [threw |-> TRUE, out |-> <<>>]
       ELSE [threw |-> FALSE,
             out |-> <<[ev |-> "operator-message", text |-> e.text,
                        timestamp |-> e.timestamp]>>]
  ELSE IF e.role = "system"
  THEN [threw |-> FALSE, out |-> <<ClientCallEnded>>]
  ELSE [threw |-> FALSE, out |-> <<>>]

RECURSIVE Repeat(_, _)
Repeat(s, k) == IF k = 0 THEN <<>> ELSE s \o Repeat(s, k - 1)

\* EventEmitter.emit of e with k registered listener sets: the listeners run in
\* order of registration; the first one that throws ends the emit
Delivered(e, k) ==
  IF e.ev = "ended" THEN Repeat(<<ClientCallEnded>>, k)
  ELSE IF e.ev = "error" THEN Repeat(<<ClientError(e.text)>>, k)
  ELSE IF onMessage(e).threw THEN <<>>
  ELSE Repeat(onMessage(e).out, k)

\* variant: the latest event is put in front of the earlier ones
RECURSIVE emitAll_newestFirst(_, _, _, _, _)
emitAll_newestFirst(evs, out, ls, c, emits) ==
  IF emits = <<>> THEN [events |-> evs, out |-> out]
  ELSE emitAll_newestFirst([evs EXCEPT ![c] = <<Head(emits)>> \o @],
                           Delivered(Head(emits), ls[c]) \o out, ls, c, Tail(emits))

\* Conversation c emits the events of emits one after the other
RECURSIVE emitAll(_, _, _, _, _)
emitAll(evs, out, ls, c, emits) ==
  IF emits = <<>> THEN [events |-> evs, out |-> out]
  ELSE emitAll([evs EXCEPT ![c] = Append(@, Head(emits))],
               out \o Delivered(Head(emits), ls[c]), ls, c, Tail(emits))

\* variant: the socket is neither closed nor dereferenced
end_keepsSocket(cv, wsk, ee, c) ==
  [conv |-> [cv EXCEPT ![c].isActive = FALSE, ![c].callInitiated = FALSE],
   wsock |-> wsk,
   ended |-> [ee EXCEPT ![c] = Bump(ee[c])],
   emits |-> <<EndedEvent>>]

\* Conversation.end() on object c: heap, sockets and emitted 'ended' events after
\* it, and the events it emits
end(cv, wsk, ee, c) ==
  [conv |-> [cv EXCEPT ![c].isActive = FALSE, ![c].callInitiated = FALSE, ![c].ws = 0],
   wsock |-> IF cv[c].ws # 0
             THEN [wsk EXCEPT ![cv[c].ws].state = wsCloseCalled(wsk[cv[c].ws].state)]
             ELSE wsk,
   ended |-> [ee EXCEPT ![c] = Bump(ee[c])],
   emits |-> <<EndedEvent>>]

\* variant: the connection-lost path taken whether or not the Conversation is active
handleConnectionClose_unguarded(cv, wsk, ee, c) ==
  LET e == end(cv, wsk, ee, c) IN
  [conv |-> e.conv, wsock |-> e.wsock, ended |-> e.ended,
   emits |-> <<ConnectionLost>> \o e.emits]

\* Conversation.handleConnectionClose on object c
handleConnectionClose(cv, wsk, ee, c) ==
  IF cv[c].isActive
  THEN LET e == end(cv, wsk, ee, c) IN
       [conv |-> e.conv, wsock |-> e.wsock, ended |-> e.ended,
        emits |-> <<ConnectionLost>> \o e.emits]
  ELSE [conv |-> cv, wsock |-> wsk, ended |-> ee, emits |-> <<>>]

\* an inbound message as JSON.parse returns it
Msg(type, hasText, text) == [type |-> type, hasText |-> hasText, text |-> text]

\* variant: the text is tested without trim()
handleWebSocketMessage_untrimmed(cv, wsk, ee, c, message) ==
  IF message.type \in {"agent_transcript", "agent_response"}
  THEN [conv |-> cv, wsock |-> wsk, ended |-> ee,
        emits |-> IF message.hasText /\ message.text # <<>>
                  THEN <<MessageEvent("callee", message.text)>> ELSE <<>>]
  ELSE IF message.type \in {"audio_chunk", "conversation_ended"}
  THEN LET e == end(cv, wsk, ee, c) IN
       [conv |-> e.conv, wsock |-> e.wsock, ended |-> e.ended,
        emits |-> <<CallEnded>> \o e.emits]
  ELSE [conv |-> cv, wsock |-> wsk, ended |-> ee, emits |-> <<>>]

\* Conversation.handleWebSocketMessage on object c
handleWebSocketMessage(cv, wsk, ee, c, message) ==
  IF message.type \in {"agent_transcript", "agent_response"}
  THEN [conv |-> cv, wsock |-> wsk, ended |-> ee,
        emits |-> IF message.hasText /\ message.text # <<>>
                     /\ Trim(message.text) # <<>>
                  THEN <<MessageEvent("callee", message.text)>> ELSE <<>>]
  ELSE IF message.type \in {"audio_chunk", "conversation_ended"}
  THEN LET e == end(cv, wsk, ee, c) IN
       [conv |-> e.conv, wsock |-> e.wsock, ended |-> e.ended,
        emits |-> <<CallEnded>> \o e.emits]
  ELSE [conv |-> cv, wsock |-> wsk, ended |-> ee, emits |-> <<>>]

\* data that JSON.parse rejects
Malformed == Msg("<not JSON>", FALSE, <<>>)

\* variant: data that does not parse is taken for a lost connection
onWsMessage_closesOnGarbage(cv, wsk, ee, c, data) ==
  IF data = Malformed THEN handleConnectionClose(cv, wsk, ee, c)
  ELSE handleWebSocketMessage(cv, wsk, ee, c, data)

\* the 'message' listener of the socket of object c: JSON.parse, then
\* handleWebSocketMessage; a parse error is caught and logged
onWsMessage(cv, wsk, ee, c, data) ==
  IF data = Malformed
  THEN [conv |-> cv, wsock |-> wsk, ended |-> ee, emits |-> <<>>]
  ELSE handleWebSocketMessage(cv, wsk, ee, c, data)

\* removeConversation: registry, heap, sockets and events after it, the object
\* ended (0: none) and what it emits
removeConversation(reg, cv, wsk, ee, sessionId) ==
  IF reg[sessionId] # 0
  THEN LET e == end(cv, wsk, ee, reg[sessionId]) IN
       [reg |-> [reg EXCEPT ![sessionId] = 0], conv |-> e.conv, wsock |-> e.wsock,
        ended |-> e.ended, c |-> reg[sessionId], emits |-> e.emits]
  ELSE [reg |-> reg, conv |-> cv, wsock |-> wsk, ended |-> ee, c |-> 0, emits |-> <<>>]

\* variant: the first registered session alone is removed
RECURSIVE cleanupKeys_firstOnly(_, _, _)
cleanupKeys_firstOnly(keys, st, ls) ==
  IF keys = {} THEN st
  ELSE LET sessionId == CHOOSE s \in keys : TRUE
           r == removeConversation(st.reg, st.conv, st.wsock, st.ended, sessionId)
           m == emitAll(st.events, st.out, ls, r.c, r.emits)
       IN [reg |-> r.reg, conv |-> r.conv, wsock |-> r.wsock, ended |-> r.ended,
           events |-> m.events, out |-> m.out]

\* the loop of cleanupAllConversations over the session ids in keys, each of
\* them registered; st is the registry, heap, sockets, 'ended' counts, event
\* log and client stream so far. (The Map's insertion order is not kept by
\* the model; the ids are taken in a fixed order.)
RECURSIVE cleanupKeys(_, _, _)
cleanupKeys(keys, st, ls) ==
  IF keys = {} THEN st
  ELSE LET sessionId == CHOOSE s \in keys : TRUE
           r == removeConversation(st.reg, st.conv, st.wsock, st.ended, sessionId)
           m == emitAll(st.events, st.out, ls, r.c, r.emits)
       IN cleanupKeys(keys \ {sessionId},
                      [reg |-> r.reg, conv |-> r.conv, wsock |-> r.wsock,
                       ended |-> r.ended, events |-> m.events, out |-> m.out], ls)

\* cleanupAllConversations of the registry module
cleanupAllConversations(st, ls) ==
  cleanupKeys({s \in DOMAIN st.reg : st.reg[s] # 0}, st, ls)

\* variant: active as soon as the details are set
setConversationDetails_activates(cv, wsk, c, w) ==
  [cv EXCEPT ![c].conversationId = w, ![c].ws = w, ![c].isActive = TRUE]

\* Conversation.setConversationDetails(conversationId, ws) on object c with socket w
setConversationDetails(cv, wsk, c, w) ==
  [cv EXCEPT ![c].conversationId = w, ![c].ws = w,
             ![c].isActive = (cv[c].isActive \/ wsk[w].state = "OPEN")]

\* what ws.send does: it returns, or it throws an Error whose message names
\* bufferUtil, or it throws another Error
SendOutcomes == {"ok", "bufferUtil", "other"}

\* variant: the readyState of the socket is not looked at
sendMessage_anyState(cv, wsk, ls, c, outcome) ==
  IF cv[c].ws = 0 \/ cv[c].conversationId = 0 \/ ~cv[c].isActive
  THEN [error |-> "Conversation not active", wrote |-> FALSE, emits |-> <<>>]
  ELSE [error |-> "none", wrote |-> TRUE, emits |-> <<>>]

\* variant: every failure of ws.send becomes an 'error' event
sendMessage_catchesAll(cv, wsk, ls, c, outcome) ==
  IF cv[c].ws = 0 \/ cv[c].conversationId = 0 \/ ~cv[c].isActive
  THEN [error |-> "Conversation not active", wrote |-> FALSE, emits |-> <<>>]
  ELSE IF wsk[cv[c].ws].state # "OPEN"
  THEN [error |-> "WebSocket connection is not ready", wrote |-> FALSE, emits |-> <<>>]
  ELSE IF outcome = "ok"
  THEN [error |-> "none", wrote |-> TRUE, emits |-> <<>>]
  ELSE [error |-> "none", wrote |-> FALSE, emits |-> <<ErrorEvent(ConnectionIssue)>>]

\* Conversation.sendMessage on object c, ws.send behaving as outcome says: the
\* error thrown ("none": it returned), whether the contextual_update was written
\* to the socket, and the events emitted. emit('error') with no listener
\* registered throws its argument.
sendMessage(cv, wsk, ls, c, outcome) ==
  IF cv[c].ws = 0 \/ cv[c].conversationId = 0 \/ ~cv[c].isActive
  THEN [error |-> "Conversation not active", wrote |-> FALSE, emits |-> <<>>]
  ELSE IF wsk[cv[c].ws].state # "OPEN"
  THEN [error |-> "WebSocket connection is not ready", wrote |-> FALSE, emits |-> <<>>]
  ELSE IF outcome = "ok"
  THEN [error |-> "none", wrote |-> TRUE, emits |-> <<>>]
  ELSE IF outcome = "bufferUtil"
  THEN IF ls[c] > 0
       THEN [error |-> "none", wrote |-> FALSE, emits |-> <<ErrorEvent(ConnectionIssue)>>]
       ELSE [error |-> "WebSocket connection issue, please try again",
             wrote |-> FALSE, emits |-> <<>>]
  ELSE [error |-> "ws.send failed", wrote |-> FALSE, emits |-> <<>>]

NoSend == [n |-> 0, c |-> 0, error |-> "none", wrote |-> FALSE, outcome |-> "none"]

\* the process before utils.ts is loaded: cleanupInterval is null, no interval
\* timer is alive, startRateLimitCleanup was never called
Unloaded == [cleanupInterval |-> FALSE, sweepTimers |-> 0, starts |-> 0,
             build |-> "unknown", exitTimers |-> 0, ioClosing |-> FALSE,
             exited |-> FALSE]

\* variant: the timer at hand is not cleared before a new one is set
startRateLimitCleanup_noClear(p) ==
  [p EXCEPT !.sweepTimers = @ + 1, !.cleanupInterval = TRUE, !.starts = @ + 1]

\* startRateLimitCleanup on process p: clearInterval of the timer at hand,
\* then setInterval
startRateLimitCleanup(p) ==
  [p EXCEPT !.sweepTimers = (IF p.cleanupInterval THEN @ - 1 ELSE @) + 1,
            !.cleanupInterval = TRUE,
            !.starts = @ + 1]

\* stopRateLimitCleanup on process p
stopRateLimitCleanup(p) ==
  IF p.cleanupInterval
  THEN [p EXCEPT !.sweepTimers = @ - 1, !.cleanupInterval = FALSE]
  ELSE p

\* the process after module load: startRateLimitCleanup() has set the sweep
\* timer, no shutdown handler has run
Running == startRateLimitCleanup(Unloaded)

\* the headers that both handlers set once their limiter has let the request pass
RateLimitHeaders == {"X-RateLimit-Remaining", "X-RateLimit-Reset", "X-RateLimit-Limit"}

NoResponse == [kind |-> "none", s |-> "none", status |-> 0, error |-> "none",
               retryAfter |-> -1, aiCallStatus |-> "none", fallbackMode |-> FALSE,
               headers |-> {}]

\* the handler was admitted and is suspended at its await
Pending(kind, s) ==
  [kind |-> kind, s |-> s, status |-> 0, error |-> "none", retryAfter |-> -1,
   aiCallStatus |-> "none", fallbackMode |-> FALSE, headers |-> RateLimitHeaders]

\* a response sent after the headers were set
Response(kind, s, status, error, retryAfter) ==
  [kind |-> kind, s |-> s, status |-> status, error |-> error,
   retryAfter |-> retryAfter, aiCallStatus |-> "none", fallbackMode |-> FALSE,
   headers |-> RateLimitHeaders]

\* variant: the 429 of a limiter sent after the headers were set
RateLimited_withHeaders(kind, s, error, rl) ==
  Response(kind, s, 429, error, CeilDiv(rl.resetTime - now, 1000))

\* the 429 of a limiter: returned before the setHeader calls
RateLimited(kind, s, error, rl) ==
  [Response(kind, s, 429, error, CeilDiv(rl.resetTime - now, 1000))
     EXCEPT !.headers = {}]

\* the 200 of the intake: aiCallStatus, and fallbackMode when it is set
IntakeResponse(s, aiCallStatus, fallbackMode) ==
  [Response("emergency", s, 200, "none", -1) EXCEPT !.aiCallStatus = aiCallStatus,
                                                    !.fallbackMode = fallbackMode]

(* ---------------- initial states ---------------- *)
InitLimiter ==
  /\ rateLimitStore = <<>>
  /\ rlLast = [id |-> "none", at |-> 0, allowed |-> FALSE, remaining |-> 0,
               resetTime |-> 0, prevReset |-> -1, prevAllowed |-> FALSE]
  /\ rlUnswept = [store |-> <<>>, allowed |-> FALSE, remaining |-> 0, resetTime |-> 0]
  /\ rlSeen = [i \in RLIdentifiers |-> [bucket |-> -1, n |-> 0, reset |-> -1,
                                        allowed |-> FALSE, recent |-> <<>>]]

InitConversations ==
  /\ globalCalls = <<>>
  /\ sessionCalls = <<>>
  /\ conversations = [s \in AllSessions |-> 0]
  /\ conv = [c \in ConvIds |-> NoConv]
  /\ wsock = [w \in WsIds |-> NoWs]
  /\ inflight = {}
  /\ resp = NoResponse
  /\ requests = 0
  /\ admitted = <<>>
  /\ grants = [s \in AllSessions |-> 0]
  /\ endedEmitted = [c \in ConvIds |-> 0]
  /\ events = [c \in ConvIds |-> <<>>]
  /\ listeners = [c \in ConvIds |-> 0]
  /\ timers = 0
  /\ clientOut = <<>>
  /\ inbox = [w \in WsIds |-> <<>>]
  /\ written = [w \in WsIds |-> <<>>]
  /\ lastSend = NoSend
  /\ proc = Running

\* module load: empty stores, the registry empty, the clock at the load time
Init ==
  /\ now = 0
  /\ rlN = ApiMaxRequests
  /\ rlW = ApiWindowMs
  /\ InitLimiter
  /\ InitConversations

(* ---------------- the clock ---------------- *)
\* Date.now() moves on by d; cleanup timer firings that fall due have run,
\* unless stopRateLimitCleanup() has cleared the timer
Advance(d, limit) ==
  /\ now + d <= limit
  /\ now' = now + d
  /\ rateLimitStore' = IF proc.sweepTimers > 0
                        THEN StoreAfter(rateLimitStore, now, now + d)
                        ELSE rateLimitStore
  /\ UNCHANGED <<convVars, rlVars>>

(* ---------------- POST /api/elevenlabs ---------------- *)
\* variant: the 429 of the limiter without retryAfter
ApiRejected_noRetryAfter(kind, s, rl) ==
  [RateLimited(kind, s, "Too many API calls", rl) EXCEPT !.retryAfter = -1]

\* the 429 of the limiter of the route
ApiRejected(kind, s, rl) == RateLimited(kind, s, "Too many API calls", rl)

\* action 'start-call', up to the suspension at `await startCall()`
StartCall(s, ip, maxRequests) ==
  /\ requests < maxRequests
  /\ LET rl == checkRateLimit(rateLimitStore, <<"elevenlabs", ip>>,
                              ApiMaxRequests, ApiWindowMs, now)
         g == getConversation(conversations, conv, s)
         canInitiate == canInitiateCall(g.conv[g.c], globalCalls, sessionCalls, now)
         rc == recordCall(canInitiate.calls, sessionCalls, s, now)
     IN
     /\ rateLimitStore' = rl.store
     /\ requests' = requests + 1
     /\ IF ~rl.allowed
        THEN /\ resp' = ApiRejected("start-call", s, rl)
             /\ UNCHANGED <<globalCalls, sessionCalls, conversations, conv, inflight,
                            admitted, grants>>
        ELSE /\ g.c # 0
             /\ conversations' = g.reg
             /\ IF ~canInitiate.allowed
                THEN /\ conv' = g.conv
                     /\ globalCalls' = canInitiate.calls
                     /\ resp' = Response("start-call", s, 429, canInitiate.reason,
                                         RetryAfterSecs)
                     /\ UNCHANGED <<sessionCalls, inflight, admitted, grants>>
                ELSE \* markCallInitiated
                     /\ conv' = [g.conv EXCEPT ![g.c].callInitiated = TRUE]
                     /\ globalCalls' = rc.calls
                     /\ sessionCalls' = rc.sessions
                     /\ admitted' = Append(admitted, now)
                     /\ grants' = [grants EXCEPT ![s] = @ + 1]
                     /\ inflight' = inflight \cup {[s |-> s, c |-> g.c, op |-> "start-call"]}
                     /\ resp' = Pending("start-call", s)
  /\ UNCHANGED <<now, wsock, endedEmitted, emitVars, relayVars, rlVars, proc>>

\* startCall() resolved: openConvWS, setConversationDetails, 200
StartCallResolved(h) ==
  /\ h \in inflight
  /\ h.op = "start-call"
  /\ FreeWs(wsock) # {}
  /\ LET w == Lowest(FreeWs(wsock)) IN
     /\ wsock' = [wsock EXCEPT ![w] = [state |-> "CONNECTING", owner |-> h.c,
                                            opened |-> FALSE, errored |-> FALSE]]
     /\ conv' = setConversationDetails(conv, wsock', h.c, w)
  /\ inflight' = inflight \ {h}
  /\ resp' = Response("start-call", h.s, 200, "none", -1)
  /\ UNCHANGED <<now, rateLimitStore, globalCalls, sessionCalls, conversations,
                 requests, admitted, grants, endedEmitted, emitVars, relayVars,
                 rlVars, proc>>

\* startCall() threw: the catch block resets callInitiated on getConversation(sessionId)
StartCallFailed(h) ==
  /\ h \in inflight
  /\ h.op = "start-call"
  /\ LET g == getConversation(conversations, conv, h.s) IN
     /\ g.c # 0
     /\ conversations' = g.reg
     /\ conv' = [g.conv EXCEPT ![g.c].callInitiated = FALSE]
  /\ inflight' = inflight \ {h}
  /\ resp' = Response("start-call", h.s, 500, "Failed to start call", -1)
  /\ UNCHANGED <<now, rateLimitStore, globalCalls, sessionCalls, wsock,
                 requests, admitted, grants, endedEmitted, emitVars, relayVars,
                 rlVars, proc>>

\* action 'end-call'
EndCall(s, ip, maxRequests) ==
  /\ requests < maxRequests
  /\ LET rl == checkRateLimit(rateLimitStore, <<"elevenlabs", ip>>,
                              ApiMaxRequests, ApiWindowMs, now)
         r == removeConversation(conversations, conv, wsock, endedEmitted, s)
     IN
     /\ rateLimitStore' = rl.store
     /\ requests' = requests + 1
     /\ IF ~rl.allowed
        THEN /\ resp' = ApiRejected("end-call", s, rl)
             /\ UNCHANGED <<conversations, conv, wsock, endedEmitted, emitVars>>
        ELSE /\ conversations' = r.reg
             /\ conv' = r.conv
             /\ wsock' = r.wsock
             /\ endedEmitted' = r.ended
             /\ IF r.c # 0
                THEN LET m == emitAll(events, clientOut, listeners, r.c, r.emits)
                     IN events' = m.events /\ clientOut' = m.out
                ELSE UNCHANGED emitVars
             /\ resp' = Response("end-call", s, 200, "none", -1)
  /\ UNCHANGED <<now, globalCalls, sessionCalls, inflight, admitted, grants,
                 relayVars, rlVars, proc>>

(* ---------------- socket event 'end-call' ---------------- *)
SocketEndCall(s) ==
  /\ LET g == getConversation(conversations, conv, s)
         e == end(g.conv, wsock, endedEmitted, g.c)
         m == emitAll(events, clientOut, listeners, g.c, e.emits)
     IN
     /\ g.c # 0
     /\ conversations' = g.reg
     /\ IF g.conv[g.c].isActive
        THEN /\ conv' = e.conv /\ wsock' = e.wsock /\ endedEmitted' = e.ended
             /\ events' = m.events /\ clientOut' = m.out
        ELSE conv' = g.conv /\ UNCHANGED <<wsock, endedEmitted, emitVars>>
  /\ UNCHANGED <<now, rateLimitStore, globalCalls, sessionCalls, inflight, resp,
                 requests, admitted, grants, relayVars, rlVars, proc>>

(* ---------------- events of the channel (setConversationDetails handlers) ------- *)
\* 'open'
WsOpen(w) ==
  /\ wsock[w].state = "CONNECTING"
  /\ wsock' = [wsock EXCEPT ![w].state = "OPEN", ![w].opened = TRUE]
  /\ conv' = [conv EXCEPT ![wsock[w].owner].isActive = TRUE]
  /\ UNCHANGED <<now, rateLimitStore, globalCalls, sessionCalls, conversations,
                 inflight, resp, requests, admitted, grants, endedEmitted, emitVars,
                 relayVars, rlVars, proc>>

\* 'error': the socket fails (handshake failure or timeout, transport error);
\* it is closing when the handlers run and 'close' follows
WsError(w) ==
  /\ wsock[w].state \in {"CONNECTING", "OPEN"}
  /\ LET failing == [wsock EXCEPT ![w].state = "CLOSING", ![w].errored = TRUE]
         h == handleConnectionClose(conv, failing, endedEmitted, wsock[w].owner)
         m == emitAll(events, clientOut, listeners, wsock[w].owner, h.emits)
     IN /\ conv' = h.conv /\ wsock' = h.wsock /\ endedEmitted' = h.ended
        /\ events' = m.events /\ clientOut' = m.out
  /\ UNCHANGED <<now, rateLimitStore, globalCalls, sessionCalls, conversations,
                 inflight, resp, requests, admitted, grants, relayVars, rlVars, proc>>

\* 'close': the remote side closed an open socket, or a closing one finished
WsClose(w) ==
  /\ wsock[w].state \in {"OPEN", "CLOSING"}
  /\ LET closed == [wsock EXCEPT ![w].state = "CLOSED"]
         h == handleConnectionClose(conv, closed, endedEmitted, wsock[w].owner)
         m == emitAll(events, clientOut, listeners, wsock[w].owner, h.emits)
     IN /\ conv' = h.conv /\ wsock' = h.wsock /\ endedEmitted' = h.ended
        /\ events' = m.events /\ clientOut' = m.out
  /\ UNCHANGED <<now, rateLimitStore, globalCalls, sessionCalls, conversations,
                 inflight, resp, requests, admitted, grants, relayVars, rlVars, proc>>

\* inbound messages whose handling changes the Conversation: 'conversation_ended',
\* and 'audio_chunk', whose case falls through to it
EndingKinds == {"conversation_ended", "audio_chunk"}

\* 'message' with such a type, on a socket that still delivers
WsMessage(w, type) ==
  /\ wsock[w].state \in {"OPEN", "CLOSING"}
  /\ type \in EndingKinds
  /\ endedEmitted[wsock[w].owner] < 2
  /\ LET e == handleWebSocketMessage(conv, wsock, endedEmitted, wsock[w].owner,
                                     Msg(type, FALSE, <<>>))
         m == emitAll(events, clientOut, listeners, wsock[w].owner, e.emits)
     IN /\ conv' = e.conv /\ wsock' = e.wsock /\ endedEmitted' = e.ended
        /\ events' = m.events /\ clientOut' = m.out
  /\ UNCHANGED <<now, rateLimitStore, globalCalls, sessionCalls, conversations,
                 inflight, resp, requests, admitted, grants, relayVars, rlVars, proc>>

\* the inbound messages of the other kinds that the runs deliver
InboundMessages ==
  { Msg("agent_transcript", FALSE, <<>>),
    Msg("agent_transcript", TRUE, <<Blank, Blank>>),
    Msg("agent_transcript", TRUE, <<"a">>),
    Msg("agent_response", TRUE, <<>>),
    Msg("agent_response", TRUE, <<Blank, "b", Blank>>),
    Msg("unknown_kind", TRUE, <<"a">>),
    Malformed }

\* 'message' with one of them, on a socket that still delivers
WsInbound(w, message) ==
  /\ wsock[w].state \in {"OPEN", "CLOSING"}
  /\ message \in InboundMessages
  /\ Len(inbox[w]) < MaxInbound
  /\ inbox' = [inbox EXCEPT ![w] = Append(@, message)]
  /\ LET e == onWsMessage(conv, wsock, endedEmitted, wsock[w].owner, message)
         m == emitAll(events, clientOut, listeners, wsock[w].owner, e.emits)
     IN /\ conv' = e.conv /\ wsock' = e.wsock /\ endedEmitted' = e.ended
        /\ events' = m.events /\ clientOut' = m.out
  /\ UNCHANGED <<now, rateLimitStore, globalCalls, sessionCalls, conversations,
                 inflight, resp, requests, admitted, grants, listeners, timers, written,
                 lastSend, rlVars, proc>>

\* the peer's close frame arrived: the socket is closing, 'close' is yet to come
WsPeerClosing(w) ==
  /\ wsock[w].state = "OPEN"
  /\ wsock' = [wsock EXCEPT ![w].state = "CLOSING"]
  /\ UNCHANGED <<now, rateLimitStore, globalCalls, sessionCalls, conversations, conv,
                 inflight, resp, requests, admitted, grants, endedEmitted, emitVars,
                 relayVars, rlVars, proc>>

(* ---------------- socket events 'join-session', 'user-message' ---------------- *)
\* the text of the simulated operator
SimulatedOperator == <<"Hello, this is emergency dispatch. I can see your request. Are you in immediate danger?">>

\* o is the simulated operator's message
Simulated(o) == o.ev = "operator-message" /\ o.text = SimulatedOperator

\* 'join-session': listeners are registered on a Conversation found active;
\* otherwise a timer is set for the simulated operator
JoinSession(s) ==
  /\ LET g == getConversation(conversations, conv, s) IN
     /\ g.c # 0
     /\ listeners[g.c] + timers + Len(SelectSeq(clientOut, Simulated)) < MaxJoins
     /\ conversations' = g.reg
     /\ conv' = g.conv
     /\ IF g.conv[g.c].isActive /\ g.conv[g.c].conversationId # 0
        THEN /\ listeners' = [listeners EXCEPT ![g.c] = @ + 1]
             /\ UNCHANGED timers
        ELSE /\ timers' = timers + 1
             /\ UNCHANGED listeners
  /\ UNCHANGED <<now, rateLimitStore, globalCalls, sessionCalls, wsock, inflight, resp,
                 requests, admitted, grants, endedEmitted, emitVars, inbox, written,
                 lastSend, rlVars, proc>>

\* the fallback timer of join-session fires: the simulated operator's message
\* goes to the client, stamped with the time of firing
FallbackTimer ==
  /\ timers > 0
  /\ timers' = timers - 1
  /\ clientOut' = Append(clientOut, [ev |-> "operator-message",
                                     text |-> SimulatedOperator,
                                     timestamp |-> {now}])
  /\ UNCHANGED <<now, rateLimitStore, globalCalls, sessionCalls, conversations, conv,
                 wsock, inflight, resp, requests, admitted, grants, endedEmitted,
                 events, listeners, inbox, written, lastSend, rlVars, proc>>

UserTexts == {<<"h">>}

\* a caller ran sendMessage(text) on object c, ws.send behaving as outcome
\* says, with result r (lastSend.c = 0: the last sender did not get as far as
\* sendMessage; outcome "none": sendMessage did not get as far as ws.send)
Sent(c, text, outcome, r) ==
  /\ lastSend' = [n |-> lastSend.n + 1, c |-> c, error |-> r.error, wrote |-> r.wrote,
                  outcome |-> IF r.error \in {"Conversation not active",
                                               "WebSocket connection is not ready"}
                              THEN "none" ELSE outcome]
  /\ written' = IF r.wrote THEN [written EXCEPT ![conv[c].ws] = Append(@, text)]
                ELSE written

\* 'user-message'
UserMessage(s, text, outcome) ==
  /\ lastSend.n < MaxSends
  /\ LET g == getConversation(conversations, conv, s)
         r == sendMessage(g.conv, wsock, listeners, g.c, outcome)
         m == emitAll(events, clientOut, listeners, g.c, r.emits)
     IN
     /\ g.c # 0
     /\ conversations' = g.reg
     /\ conv' = g.conv
     /\ IF g.conv[g.c].isActive /\ g.conv[g.c].conversationId # 0
        THEN /\ Sent(g.c, text, outcome, r)
             /\ events' = m.events
             /\ clientOut' = IF r.error # "none"
                              THEN Append(m.out,
                                          ClientError(<<"Failed to send message to operator">>))
                              ELSE m.out
        ELSE /\ outcome = "ok"
             /\ clientOut' = Append(clientOut,
                                     ClientError(<<"No active conversation found">>))
             /\ lastSend' = [NoSend EXCEPT !.n = lastSend.n + 1]
             /\ UNCHANGED <<written, events>>
  /\ UNCHANGED <<now, rateLimitStore, globalCalls, sessionCalls, wsock, inflight, resp,
                 requests, admitted, grants, endedEmitted, listeners, timers,
                 inbox, rlVars, proc>>

\* the intake handler, after its call was set up and two seconds went by, sends
\* the report's context on its Conversation and swallows the error; the
\* Conversation of a tracked session stands for the intake's own
ContextSend(c, text, outcome) ==
  /\ lastSend.n < MaxSends
  /\ conv[c].alloc
  /\ conv[c].conversationId # 0
  /\ LET r == sendMessage(conv, wsock, listeners, c, outcome)
         m == emitAll(events, clientOut, listeners, c, r.emits)
     IN /\ Sent(c, text, outcome, r)
        /\ events' = m.events
        /\ clientOut' = m.out
  /\ UNCHANGED <<now, rateLimitStore, globalCalls, sessionCalls, conversations, conv,
                 wsock, inflight, resp, requests, admitted, grants, endedEmitted,
                 listeners, timers, inbox, rlVars, proc>>

(* ---------------- POST /api/emergency ---------------- *)
\* A valid report. The handler makes a fresh session id, so its admission check
\* meets a new Conversation with no session record; what it does after the
\* admission touches only that session's own Conversation, which is none of
\* the tracked Sessions.
EmergencyIntake(ip, maxRequests) ==
  /\ requests < maxRequests
  /\ LET rl == checkRateLimit(rateLimitStore, <<"emergency", ip>>,
                              ApiMaxRequests, ApiWindowMs, now)
         canInitiate == canInitiateCall(NewConversation("fresh"), globalCalls,
                                        sessionCalls, now)
     IN
     /\ rateLimitStore' = rl.store
     /\ requests' = requests + 1
     /\ IF ~rl.allowed
        THEN /\ resp' = RateLimited("emergency", "fresh", "Too many emergency requests", rl)
             /\ UNCHANGED <<globalCalls, admitted>>
        ELSE IF ~canInitiate.allowed
        THEN /\ globalCalls' = canInitiate.calls
             /\ resp' = Response("emergency", "fresh", 429, canInitiate.reason,
                                 RetryAfterSecs)
             /\ UNCHANGED admitted
        ELSE /\ globalCalls' = Append(canInitiate.calls, now)
             /\ admitted' = Append(admitted, now)
             /\ resp' = Pending("emergency", "fresh")
  /\ UNCHANGED <<now, sessionCalls, conversations, conv, wsock, inflight, grants,
                 endedEmitted, emitVars, relayVars, rlVars, proc>>

\* a report body: the service named, the length of the description, whether
\* a location object is there, and the manualAddress ("absent": no such key,
\* "null", or "string")
Report(serviceNeeded, descriptionLength, hasLocation, manualAddress) ==
  [serviceNeeded |-> serviceNeeded, descriptionLength |-> descriptionLength,
   hasLocation |-> hasLocation, manualAddress |-> manualAddress]

Reports ==
  { Report(sv, n, loc, ma) :
      sv \in {"police", "fire", "ambulance", "coastguard"},
      n \in {9, 10, 280, 281},
      loc \in BOOLEAN,
      ma \in {"absent", "null", "string"} }

\* variant: the description is not measured
EmergencyRequestSchema_anyLength(report) ==
  /\ report.serviceNeeded \in {"police", "fire", "ambulance"}
  /\ report.manualAddress \in {"null", "string"}

\* EmergencyRequestSchema.parse succeeds: location is optional, manualAddress
\* is z.string().nullable(), a key that must be there and may be null
EmergencyRequestSchema(report) ==
  /\ report.serviceNeeded \in {"police", "fire", "ambulance"}
  /\ report.descriptionLength >= 10
  /\ report.descriptionLength <= 280
  /\ report.manualAddress \in {"null", "string"}

\* buildEmergencyContext(validatedData)
EmergencyContext == <<"EMERGENCY UPDATE">>

\* a session id the handler can generate: one that nothing has used
FreshSession(s) == conversations[s] = 0 /\ s \notin DOMAIN sessionCalls

\* The intake with the session it makes tracked, up to the suspension at
\* `await startCall(validatedData)`; s is the session id it generates once the
\* report is validated
IntakeReport(s, ip, report, maxReports) ==
  /\ requests < maxReports
  /\ LET rl == checkRateLimit(rateLimitStore, <<"emergency", ip>>,
                              ApiMaxRequests, ApiWindowMs, now)
         g == getConversation(conversations, conv, s)
         canInitiate == canInitiateCall(g.conv[g.c], globalCalls, sessionCalls, now)
         rc == recordCall(canInitiate.calls, sessionCalls, s, now)
     IN
     /\ rateLimitStore' = rl.store
     /\ requests' = requests + 1
     /\ IF ~rl.allowed
        THEN /\ resp' = RateLimited("emergency", "none", "Too many emergency requests", rl)
             /\ UNCHANGED <<globalCalls, sessionCalls, conversations, conv, inflight,
                            admitted, grants>>
        ELSE IF ~EmergencyRequestSchema(report)
        THEN /\ resp' = Response("emergency", "none", 400, "Invalid request data", -1)
             /\ UNCHANGED <<globalCalls, sessionCalls, conversations, conv, inflight,
                            admitted, grants>>
        ELSE /\ FreshSession(s)
             /\ g.c # 0
             /\ conversations' = g.reg
             /\ IF ~canInitiate.allowed
                THEN /\ conv' = g.conv
                     /\ globalCalls' = canInitiate.calls
                     /\ resp' = Response("emergency", s, 429, canInitiate.reason,
                                         RetryAfterSecs)
                     /\ UNCHANGED <<sessionCalls, inflight, admitted, grants>>
                ELSE \* markCallInitiated
                     /\ conv' = [g.conv EXCEPT ![g.c].callInitiated = TRUE]
                     /\ globalCalls' = rc.calls
                     /\ sessionCalls' = rc.sessions
                     /\ admitted' = Append(admitted, now)
                     /\ grants' = [grants EXCEPT ![s] = @ + 1]
                     /\ inflight' = inflight \cup {[s |-> s, c |-> g.c, op |-> "intake"]}
                     /\ resp' = Pending("emergency", s)
  /\ UNCHANGED <<now, wsock, endedEmitted, emitVars, relayVars, rlVars, proc>>

\* startCall() resolved: openConvWS, setConversationDetails, then the handler
\* waits two seconds
IntakeCallStarted(h) ==
  /\ h \in inflight
  /\ h.op = "intake"
  /\ FreeWs(wsock) # {}
  /\ LET w == Lowest(FreeWs(wsock)) IN
     /\ wsock' = [wsock EXCEPT ![w] = [state |-> "CONNECTING", owner |-> h.c,
                                            opened |-> FALSE, errored |-> FALSE]]
     /\ conv' = setConversationDetails(conv, wsock', h.c, w)
  /\ inflight' = (inflight \ {h}) \cup {[h EXCEPT !.op = "intake-wait"]}
  /\ resp' = Pending("emergency", h.s)
  /\ UNCHANGED <<now, rateLimitStore, globalCalls, sessionCalls, conversations,
                 requests, admitted, grants, endedEmitted, emitVars, relayVars,
                 rlVars, proc>>

\* startCall() threw: the catch block resets callInitiated on the Conversation
\* the handler holds and answers 200 with aiCallStatus 'failed'
IntakeCallFailed(h) ==
  /\ h \in inflight
  /\ h.op = "intake"
  /\ conv' = [conv EXCEPT ![h.c].callInitiated = FALSE]
  /\ inflight' = inflight \ {h}
  /\ resp' = IntakeResponse(h.s, "failed", TRUE)
  /\ UNCHANGED <<now, rateLimitStore, globalCalls, sessionCalls, conversations, wsock,
                 requests, admitted, grants, endedEmitted, emitVars, relayVars,
                 rlVars, proc>>

\* the two seconds are over: the context is sent, an error of sendMessage is
\* caught and logged, and the handler answers 200 with aiCallStatus 'active'
IntakeRespond(h, outcome) ==
  /\ h \in inflight
  /\ h.op = "intake-wait"
  /\ LET r == sendMessage(conv, wsock, listeners, h.c, outcome)
         m == emitAll(events, clientOut, listeners, h.c, r.emits)
     IN /\ Sent(h.c, EmergencyContext, outcome, r)
        /\ events' = m.events
        /\ clientOut' = m.out
  /\ inflight' = inflight \ {h}
  /\ resp' = IntakeResponse(h.s, "active", FALSE)
  /\ UNCHANGED <<now, rateLimitStore, globalCalls, sessionCalls, conversations, conv,
                 wsock, requests, admitted, grants, endedEmitted, listeners, timers,
                 inbox, rlVars, proc>>

(* ---------------- shutdown ---------------- *)
\* what triggers the cleanup handler of setupGracefulShutdown
Signals == {"SIGINT", "SIGTERM", "SIGQUIT", "uncaughtException", "unhandledRejection"}

\* the two shutdown modules of the repository: in lib/shutdown.ts the name
\* cleanupAllConversations is the module's own function, which only logs; in
\* part_003 it is the registry's
Builds == {"lib/shutdown.ts", "part_003"}

\* registry, heap, sockets, 'ended' counts, event log and client stream now
Store == [reg |-> conversations, conv |-> conv, wsock |-> wsock, ended |-> endedEmitted,
          events |-> events, out |-> clientOut]

\* the state after it is st
StoreBecomes(st) ==
  /\ conversations' = st.reg
  /\ conv' = st.conv
  /\ wsock' = st.wsock
  /\ endedEmitted' = st.ended
  /\ events' = st.events
  /\ clientOut' = st.out

\* a signal or fault arrives: cleanup() stops the sweep, calls
\* cleanupAllConversations and sets the exit timer; with the socket server set
\* up (io), SIGINT and SIGTERM also make it close
Shutdown(signal, build, io) ==
  /\ proc.exitTimers < MaxSignals
  /\ proc.build \in {"unknown", build}
  /\ io => signal \in {"SIGINT", "SIGTERM"}
  /\ proc' = [stopRateLimitCleanup(proc) EXCEPT !.build = build,
                                                !.exitTimers = @ + 1,
                                                !.ioClosing = @ \/ io]
  /\ StoreBecomes(IF build = "part_003"
                  THEN cleanupAllConversations(Store, listeners)
                  ELSE Store)
  /\ UNCHANGED <<now, rateLimitStore, globalCalls, sessionCalls, inflight, resp,
                 requests, admitted, grants, relayVars, rlVars>>

\* io.close() has closed the socket server: its callback runs the registry's
\* cleanupAllConversations
IoClosed ==
  /\ proc.ioClosing
  /\ proc' = [proc EXCEPT !.ioClosing = FALSE]
  /\ StoreBecomes(cleanupAllConversations(Store, listeners))
  /\ UNCHANGED <<now, rateLimitStore, globalCalls, sessionCalls, inflight, resp,
                 requests, admitted, grants, relayVars, rlVars>>

\* an exit timer fires, a second after cleanup(): process.exit(0)
ProcessExit ==
  /\ proc.exitTimers > 0
  /\ proc' = [proc EXCEPT !.exited = TRUE, !.exitTimers = 0, !.ioClosing = FALSE]
  /\ UNCHANGED <<now, rateLimitStore, globalCalls, sessionCalls, conversations, conv,
                 wsock, inflight, resp, requests, admitted, grants, endedEmitted,
                 emitVars, relayVars, rlVars>>

\* a call of startRateLimitCleanup() after the one at module load
StartCleanup ==
  /\ proc.starts < MaxStarts
  /\ proc' = startRateLimitCleanup(proc)
  /\ UNCHANGED <<now, rateLimitStore, globalCalls, sessionCalls, conversations, conv,
                 wsock, inflight, resp, requests, admitted, grants, endedEmitted,
                 emitVars, relayVars, rlVars>>

\* a call of stopRateLimitCleanup()
StopCleanup ==
  /\ proc' = stopRateLimitCleanup(proc)
  /\ UNCHANGED <<now, rateLimitStore, globalCalls, sessionCalls, conversations, conv,
                 wsock, inflight, resp, requests, admitted, grants, endedEmitted,
                 emitVars, relayVars, rlVars>>

(* ---------------- the limiter driven on its own ---------------- *)
InitRL ==
  /\ now \in 0..1
  /\ rlN \in 1..MaxN
  /\ rlW \in 2..MaxW
  /\ InitLimiter
  /\ InitConversations

\* a call checkRateLimit(id, rlN, rlW) and its record
RLCall(id) ==
  /\ LET r == checkRateLimit(rateLimitStore, id, rlN, rlW, now)
         b == now \div rlW
     IN
     /\ rateLimitStore' = r.store
     /\ rlLast' = [id |-> id, at |-> now, allowed |-> r.allowed,
                   remaining |-> r.remaining, resetTime |-> r.resetTime,
                   prevReset |-> rlSeen[id].reset, prevAllowed |-> rlSeen[id].allowed]
     /\ rlSeen' = [rlSeen EXCEPT ![id] =
                     [bucket |-> b,
                      n |-> IF rlSeen[id].bucket = b
                            THEN Min2(rlSeen[id].n + 1, rlN + 1) ELSE 1,
                      reset |-> r.resetTime, allowed |-> r.allowed,
                      recent |-> LET kept == SelectSeq(rlSeen[id].recent,
                                                       LAMBDA ts : now - ts <= rlW)
                                 IN IF r.allowed THEN Append(kept, now) ELSE kept]]
  /\ UNCHANGED <<now, rlN, rlW, convVars>>

RLCheck(id) == RLCall(id) /\ UNCHANGED rlUnswept

\* the call, and the same call on the store that no sweep touches
RLCheckTwice(id) ==
  /\ RLCall(id)
  /\ LET u == checkRateLimit(rlUnswept.store, id, rlN, rlW, now) IN
     rlUnswept' = [store |-> u.store, allowed |-> u.allowed,
                   remaining |-> u.remaining, resetTime |-> u.resetTime]

(* ---------------- specifications ---------------- *)
ClockStepMs == CALL_COOLDOWN_MS \div 2

Tick == Advance(ClockStepMs, MaxSteps * ClockStepMs)

\* an hour later, once the steps are used up
HourLater == now = MaxSteps * ClockStepMs /\ Advance(HourMs, HourMs + now)

Next ==
  \/ Tick
  \/ HourLater
  \/ \E s \in Sessions, ip \in ClientIPs : StartCall(s, ip, MaxRequests)
  \/ \E h \in inflight : StartCallResolved(h)
  \/ \E h \in inflight : StartCallFailed(h)
  \/ \E s \in Sessions, ip \in ClientIPs : EndCall(s, ip, MaxRequests)
  \/ \E s \in Sessions : SocketEndCall(s)
  \/ \E w \in WsIds : WsOpen(w)
  \/ \E w \in WsIds : WsError(w)
  \/ \E w \in WsIds : WsClose(w)
  \/ \E w \in WsIds, type \in EndingKinds : WsMessage(w, type)
  \/ \E ip \in ClientIPs : EmergencyIntake(ip, MaxRequests)

Spec == Init /\ [][Next]_vars

TickAdm == Advance(MinuteMs, MaxStepsAdm * MinuteMs)

NextAdm ==
  \/ TickAdm
  \/ \E s \in Sessions, ip \in ClientIPs : StartCall(s, ip, MaxRequestsAdm)
  \/ \E h \in inflight : StartCallResolved(h)
  \/ \E h \in inflight : StartCallFailed(h)
  \/ \E w \in WsIds : WsOpen(w)
  \/ \E ip \in ClientIPs : EmergencyIntake(ip, MaxRequestsAdm)

SpecAdm == Init /\ [][NextAdm]_vars

\* one call with its channel traffic and the relay; the clock stands
NextConv ==
  \/ \E s \in Sessions, ip \in ClientIPs : StartCall(s, ip, MaxRequestsConv)
  \/ \E h \in inflight : StartCallResolved(h)
  \/ \E s \in Sessions : SocketEndCall(s)
  \/ \E s \in Sessions : JoinSession(s)
  \/ FallbackTimer
  \/ \E w \in WsIds : WsOpen(w)
  \/ \E w \in WsIds : WsPeerClosing(w)
  \/ \E w \in WsIds : WsError(w)
  \/ \E w \in WsIds : WsClose(w)
  \/ \E w \in WsIds, type \in EndingKinds : WsMessage(w, type)
  \/ \E w \in WsIds, message \in InboundMessages : WsInbound(w, message)

SpecConv == Init /\ [][NextConv]_vars

\* one call with its channel and the callers of sendMessage; the clock stands
NextSend ==
  \/ \E s \in Sessions, ip \in ClientIPs : StartCall(s, ip, MaxRequestsConv)
  \/ \E h \in inflight : StartCallResolved(h)
  \/ \E s \in Sessions, ip \in ClientIPs : EndCall(s, ip, MaxRequestsConv)
  \/ \E s \in Sessions : SocketEndCall(s)
  \/ \E s \in Sessions, text \in UserTexts, outcome \in SendOutcomes :
       UserMessage(s, text, outcome)
  \/ \E c \in ConvIds, text \in UserTexts, outcome \in SendOutcomes :
       ContextSend(c, text, outcome)
  \/ \E s \in Sessions : JoinSession(s)
  \/ FallbackTimer
  \/ \E w \in WsIds : WsOpen(w)
  \/ \E w \in WsIds : WsPeerClosing(w)
  \/ \E w \in WsIds : WsError(w)
  \/ \E w \in WsIds : WsClose(w)
  \/ \E w \in WsIds, type \in EndingKinds : WsMessage(w, type)

SpecSend == Init /\ [][NextSend]_vars

\* one call in mid-course: sends that fail and inbound data that does not
\* parse, between the events that end the call
NextMid ==
  \/ \E s \in Sessions, ip \in ClientIPs : StartCall(s, ip, MaxRequestsConv)
  \/ \E h \in inflight : StartCallResolved(h)
  \/ \E s \in Sessions : SocketEndCall(s)
  \/ \E s \in Sessions, text \in UserTexts, outcome \in SendOutcomes :
       UserMessage(s, text, outcome)
  \/ \E w \in WsIds : WsInbound(w, Malformed)
  \/ \E w \in WsIds : WsOpen(w)
  \/ \E w \in WsIds : WsError(w)
  \/ \E w \in WsIds : WsClose(w)
  \/ \E w \in WsIds, type \in EndingKinds : WsMessage(w, type)

SpecMid == Init /\ [][NextMid]_vars

\* the client of an intake session has its id once the intake has answered
Answered(s) == conversations[s] # 0 /\ \A h \in inflight : h.s # s

\* the intake: reports, the call it sets up, its channel and its client
NextIntake ==
  \/ \E s \in IntakeSessions, ip \in ClientIPs, report \in Reports :
       IntakeReport(s, ip, report, MaxReports)
  \/ \E h \in inflight : IntakeCallStarted(h)
  \/ \E h \in inflight : IntakeCallFailed(h)
  \/ \E h \in inflight, outcome \in SendOutcomes : IntakeRespond(h, outcome)
  \/ \E s \in IntakeSessions : Answered(s) /\ JoinSession(s)
  \/ FallbackTimer
  \/ \E s \in IntakeSessions : Answered(s) /\ SocketEndCall(s)
  \/ \E w \in WsIds : WsOpen(w)
  \/ \E w \in WsIds : WsPeerClosing(w)
  \/ \E w \in WsIds : WsError(w)
  \/ \E w \in WsIds : WsClose(w)

SpecIntake == Init /\ [][NextIntake]_vars

\* the sweep timer's period goes by
TickDown == Advance(SweepMs, SweepMs)

\* the server until the process exits: calls of a client's session and of an
\* intake session, and the shutdown
NextDown ==
  \/ ~proc.exited /\ TickDown
  \/ ~proc.exited /\ \E s \in Sessions, ip \in ClientIPs : StartCall(s, ip, MaxReports)
  \/ ~proc.exited /\ \E h \in inflight : StartCallResolved(h)
  \/ ~proc.exited /\ \E s \in AllSessions, ip \in ClientIPs : EndCall(s, ip, MaxReports)
  \/ ~proc.exited /\ \E s \in IntakeSessions, ip \in ClientIPs, report \in Reports :
                       IntakeReport(s, ip, report, MaxReports)
  \/ ~proc.exited /\ \E h \in inflight : IntakeCallStarted(h)
  \/ ~proc.exited /\ \E w \in WsIds : WsOpen(w)
  \/ ~proc.exited /\ \E signal \in Signals, build \in Builds, io \in BOOLEAN :
                       Shutdown(signal, build, io)
  \/ ~proc.exited /\ IoClosed
  \/ ~proc.exited /\ ProcessExit

SpecDown == Init /\ [][NextDown]_vars

\* one window of the handlers' limiters goes by
TickApi == Advance(ApiWindowMs, MaxStepsAdm * ApiWindowMs)

\* one client's requests to the intake, bucket after bucket, after at most
\* one start-call
NextApi ==
  \/ TickApi
  \/ \E s \in Sessions, ip \in ClientIPs : StartCall(s, ip, MaxRequestsConv)
  \/ \E h \in inflight : StartCallResolved(h)
  \/ \E ip \in ClientIPs : EmergencyIntake(ip, MaxRequestsAdm)

SpecApi == Init /\ [][NextApi]_vars

\* the sweep timer started and stopped while requests come in
NextTimer ==
  \/ TickDown
  \/ \E s \in Sessions, ip \in ClientIPs : StartCall(s, ip, MaxReports)
  \/ \E h \in inflight : StartCallResolved(h)
  \/ \E ip \in ClientIPs : EmergencyIntake(ip, MaxReports)
  \/ StartCleanup
  \/ StopCleanup

SpecTimer == Init /\ [][NextTimer]_vars

TickRL == Advance(1, MaxTimeRL)

SweepRL == Advance(SweepMs, MaxTimeRL + SweepMs)

\* the limiter around a firing of the sweep timer: windows that the firing
\* falls into, the clock from a window before it to a window after it
SweepWindows == {w \in 2..(2 * MaxW + 1) : SweepMs % w # 0}

InitSweep ==
  /\ rlW \in SweepWindows
  /\ rlN \in 1..MaxN
  /\ now = SweepMs - rlW - 1
  /\ InitLimiter
  /\ InitConversations

TickSweep == Advance(rlW - 2, SweepMs + rlW)

NextSweep ==
  \/ TickSweep
  \/ \E id \in RLIdentifiers : RLCheckTwice(id)

SpecSweep == InitSweep /\ [][NextSweep]_vars

NextRL ==
  \/ TickRL
  \/ SweepRL
  \/ \E id \in RLIdentifiers : RLCheck(id)

SpecRL == InitRL /\ [][NextRL]_vars

(* ---------------- properties ---------------- *)
\* how many timestamps of calls lie in the trailing window ending at t
CountWithin(calls, t, window) ==
  Cardinality({i \in 1..Len(calls) : t - calls[i] < window})

\* the Conversation getConversation(s) hands out in the current state
ConvOf(s) == IF conversations[s] # 0 THEN conv[conversations[s]] ELSE NewConversation(s)

\* some Conversation of session s is calling or active
SessionInCall(s) ==
  \E c \in ConvIds : /\ conv[c].alloc
                     /\ conv[c].sessionId = s
                     /\ (conv[c].callInitiated \/ conv[c].isActive)

\* this step is a 'start-call' request for s that got as far as canInitiateCall
AdmissionChecked(s) ==
  /\ requests' = requests + 1
  /\ resp'.kind = "start-call"
  /\ resp'.s = s
  /\ resp'.error # "Too many API calls"

\* this step is an intake request that got as far as canInitiateCall
IntakeChecked ==
  /\ requests' = requests + 1
  /\ resp'.kind = "emergency"
  /\ resp'.error # "Too many emergency requests"

\* the documented rules, in the documented order, on the current state:
\* the reason of the first one that fails for c
FirstFailingRule(c) ==
  IF c.isActive /\ c.conversationId # 0 THEN "Call already active"
  ELSE IF c.callInitiated THEN "Call already initiated"
  ELSE IF CountWithin(globalCalls, now, HourMs) >= MAX_CALLS_PER_HOUR
  THEN "Hourly call limit exceeded"
  ELSE IF CountWithin(globalCalls, now, MinuteMs) >= MAX_CALLS_PER_MINUTE
  THEN "Minute call limit exceeded"
  ELSE IF c.sessionId \in DOMAIN sessionCalls
          /\ now - sessionCalls[c.sessionId].lastCall < CALL_COOLDOWN_MS
  THEN "Call cooldown period active"
  ELSE IF c.sessionId \in DOMAIN sessionCalls
          /\ sessionCalls[c.sessionId].count >= MAX_CALLS_PER_SESSION
  THEN "Session call limit exceeded"
  ELSE "none"

\* C1: a start-call request for a session is granted admission only in a step
\* that begins with no Conversation of that session calling or active; while
\* one is, every admission check for the session is answered 429.
C1_SingleCall ==
  [][\A s \in Sessions :
       /\ grants'[s] > grants[s] => ~SessionInCall(s)
       /\ AdmissionChecked(s) /\ SessionInCall(s) => resp'.status = 429]_vars

\* a request for a session whose call is being placed or is live was turned away
C1_Witness ==
  /\ resp.kind = "start-call"
  /\ resp.status = 429
  /\ resp.error \in {"Call already initiated", "Call already active"}
  /\ grants[resp.s] = 1
  /\ SessionInCall(resp.s)

\* C2: after startCall threw for an admitted session (the 500 is the last
\* response), once the cooldown since the session's last call is over and both
\* global ceilings are not reached, canInitiateCall for the session allows.
C2_RollbackReadmits ==
  \A s \in Sessions :
    ( /\ resp.kind = "start-call" /\ resp.s = s /\ resp.status = 500
      /\ s \in DOMAIN sessionCalls
      /\ now - sessionCalls[s].lastCall >= CALL_COOLDOWN_MS
      /\ CountWithin(globalCalls, now, HourMs) < MAX_CALLS_PER_HOUR
      /\ CountWithin(globalCalls, now, MinuteMs) < MAX_CALLS_PER_MINUTE )
    => canInitiateCall(ConvOf(s), globalCalls, sessionCalls, now).allowed

\* C3: a channel that was wired and is closed without ever having reported open
\* leaves its Conversation with callInitiated = false.
C3_OpenFailureRollsBack ==
  \A w \in WsIds :
    (wsock[w].state = "CLOSED" /\ ~wsock[w].opened)
    => ~conv[wsock[w].owner].callInitiated

\* C4: no Conversation emits 'ended' more than once.
C4_EndedAtMostOnce == \A c \in ConvIds : endedEmitted[c] <= 1

C6_RuleOrder ==
  [][/\ \A s \in Sessions :
          AdmissionChecked(s) =>
            /\ resp'.error = FirstFailingRule(ConvOf(s))
            /\ (resp'.status = 0) = (FirstFailingRule(ConvOf(s)) = "none")
     /\ IntakeChecked =>
          /\ resp'.error = FirstFailingRule(NewConversation("fresh"))
          /\ (resp'.status = 0) = (FirstFailingRule(NewConversation("fresh")) = "none")
    ]_vars

\* a start-call was refused for the hourly ceiling while the minute ceiling,
\* the cooldown and the session ceiling were failing too
C6_Witness ==
  /\ resp.kind = "start-call"
  /\ resp.status = 429
  /\ resp.error = "Hourly call limit exceeded"
  /\ CountWithin(globalCalls, now, MinuteMs) >= MAX_CALLS_PER_MINUTE
  /\ resp.s \in DOMAIN sessionCalls
  /\ now - sessionCalls[resp.s].lastCall < CALL_COOLDOWN_MS

\* C7: at every moment at most MAX_CALLS_PER_MINUTE of all admissions ever
\* granted carry a timestamp in the trailing minute and at most
\* MAX_CALLS_PER_HOUR one in the trailing hour.
C7_GlobalCeilings ==
  /\ CountWithin(admitted, now, MinuteMs) <= MAX_CALLS_PER_MINUTE
  /\ CountWithin(admitted, now, HourMs) <= MAX_CALLS_PER_HOUR

\* both ceilings are met exactly, and a further request was refused
C7_Witness ==
  /\ CountWithin(admitted, now, MinuteMs) = MAX_CALLS_PER_MINUTE
  /\ CountWithin(admitted, now, HourMs) = MAX_CALLS_PER_HOUR
  /\ resp.status = 429
  /\ resp.error = "Hourly call limit exceeded"

\* the session's cooldown is over and neither global ceiling is reached
OnlySessionCountCanFail(s) ==
  /\ ~ConvOf(s).callInitiated
  /\ ~ConvOf(s).isActive
  /\ s \in DOMAIN sessionCalls
  /\ now - sessionCalls[s].lastCall >= CALL_COOLDOWN_MS
  /\ CountWithin(globalCalls, now, HourMs) < MAX_CALLS_PER_HOUR
  /\ CountWithin(globalCalls, now, MinuteMs) < MAX_CALLS_PER_MINUTE

InTrailingHour(calls) == SelectSeq(calls, LAMBDA ts : now - ts < HourMs)

\* a refused check on object before, which is object after once the step is
\* done, left the admission state as it was and would be refused again alike
RejectionFrame(before, after) ==
  /\ after.callInitiated = before.callInitiated
  /\ after.isActive = before.isActive
  /\ sessionCalls' = sessionCalls
  /\ InTrailingHour(globalCalls') = InTrailingHour(globalCalls)
  /\ admitted' = admitted
  /\ grants' = grants
  /\ LET again == canInitiateCall(after, globalCalls', sessionCalls', now) IN
     ~again.allowed /\ again.reason = resp'.error

\* C9: a refused admission check leaves callInitiated, isActive, the session
\* records and the global timestamps of the trailing hour as they were, and
\* the same check repeated at the same instant is refused for the same reason.
C9_RejectionNoEffect ==
  [][/\ \A s \in Sessions :
          (AdmissionChecked(s) /\ resp'.status = 429)
          => RejectionFrame(ConvOf(s), conv'[conversations'[s]])
     /\ (IntakeChecked /\ resp'.status = 429)
        => RejectionFrame(NewConversation("fresh"), NewConversation("fresh"))
    ]_vars

\* after the hour went by a check was refused for the session ceiling; it
\* dropped every expired timestamp from the global list and recorded nothing
C9_Witness ==
  /\ now >= HourMs
  /\ resp.kind = "start-call"
  /\ resp.status = 429
  /\ resp.error = "Session call limit exceeded"
  /\ admitted # <<>>
  /\ globalCalls = <<>>

\* the oldest timestamp of the list inside the trailing window
OldestWithin(calls, window) ==
  LET S == {calls[i] : i \in {j \in 1..Len(calls) : now - calls[j] < window}}
  IN CHOOSE x \in S : \A y \in S : x <= y

HintedRules == {"Call cooldown period active", "Minute call limit exceeded",
                "Hourly call limit exceeded"}

\* seconds until the failing rule of c would pass: the rest of the cooldown,
\* or the time until the oldest call leaves the window
ExpectedRetryAfter(c) ==
  LET r == FirstFailingRule(c) IN
  IF r = "Call cooldown period active"
  THEN CeilDiv(CALL_COOLDOWN_MS - (now - sessionCalls[c.sessionId].lastCall), 1000)
  ELSE IF r = "Minute call limit exceeded"
  THEN CeilDiv(OldestWithin(globalCalls, MinuteMs) + MinuteMs - now, 1000)
  ELSE CeilDiv(OldestWithin(globalCalls, HourMs) + HourMs - now, 1000)

\* C10: a check refused for the cooldown or for a global ceiling answers with
\* a retryAfter equal to the seconds left until that rule would pass.
C10_RetryAfterFromRule ==
  [][/\ \A s \in Sessions :
          (AdmissionChecked(s) /\ resp'.status = 429
           /\ FirstFailingRule(ConvOf(s)) \in HintedRules)
          => resp'.retryAfter = ExpectedRetryAfter(ConvOf(s))
     /\ (IntakeChecked /\ resp'.status = 429
         /\ FirstFailingRule(NewConversation("fresh")) \in HintedRules)
        => resp'.retryAfter = ExpectedRetryAfter(NewConversation("fresh"))
    ]_vars

\* s was admitted before and the cooldown since its last admission is running
InCooldown(s) ==
  /\ s \in DOMAIN sessionCalls
  /\ now - sessionCalls[s].lastCall < CALL_COOLDOWN_MS

\* C11 as stated: every admission check for a session made inside the cooldown
\* after its admission is refused with 'Call cooldown period active' and a
\* positive retryAfter.
C11_CooldownReasonAlways ==
  [][\A s \in Sessions :
       (AdmissionChecked(s) /\ InCooldown(s))
       => /\ resp'.status = 429
          /\ resp'.error = "Call cooldown period active"
          /\ resp'.retryAfter > 0]_vars

\* C11 amended: such a check is always refused with a positive retryAfter; the
\* reason is 'Call cooldown period active' when the session's Conversation is
\* neither active nor marked call-initiated and no global ceiling is reached.
C11_CooldownRejects ==
  [][\A s \in Sessions :
       (AdmissionChecked(s) /\ InCooldown(s))
       => /\ resp'.status = 429
          /\ resp'.retryAfter > 0
          /\ ( /\ ~ConvOf(s).callInitiated
               /\ ~(ConvOf(s).isActive /\ ConvOf(s).conversationId # 0)
               /\ CountWithin(globalCalls, now, HourMs) < MAX_CALLS_PER_HOUR
               /\ CountWithin(globalCalls, now, MinuteMs) < MAX_CALLS_PER_MINUTE )
             => resp'.error = "Call cooldown period active"]_vars

\* the second attempt of an admitted session, inside its cooldown, was refused
\* for the cooldown
C11_Witness ==
  /\ resp.kind = "start-call"
  /\ resp.status = 429
  /\ resp.error = "Call cooldown period active"
  /\ resp.retryAfter > 0
  /\ grants[resp.s] = 1
  /\ InCooldown(resp.s)

\* C12: an active Conversation holds a socket that has reported open and has a
\* conversationId; so a call set up by a request whose socket has not opened
\* is not active.
C12_ActiveMeansOpen ==
  \A c \in ConvIds :
    conv[c].isActive =>
      /\ conv[c].ws # 0
      /\ wsock[conv[c].ws].opened
      /\ conv[c].conversationId # 0

\* the request was answered 200 with the socket still connecting and the
\* Conversation not active
C12_Witness ==
  /\ resp.kind = "start-call"
  /\ resp.status = 200
  /\ \E c \in ConvIds : /\ conv[c].ws # 0
                        /\ wsock[conv[c].ws].state = "CONNECTING"
                        /\ ~conv[c].isActive

\* C13: a Conversation that is active or has a socket attached has callInitiated = true.
C13_GuardHeld ==
  \A c \in ConvIds : (conv[c].isActive \/ conv[c].ws # 0) => conv[c].callInitiated

\* this step delivers one of the end triggers to Conversation c
EndTrigger(c) ==
  \/ /\ conv[c].ws # 0
     /\ \/ WsClose(conv[c].ws)
        \/ WsError(conv[c].ws)
        \/ WsMessage(conv[c].ws, "conversation_ended")
  \/ /\ conversations[conv[c].sessionId] = c
     /\ \/ SocketEndCall(conv[c].sessionId)
        \/ /\ \E ip \in ClientIPs : EndCall(conv[c].sessionId, ip, MaxRequests)
           /\ resp'.status = 200

\* C14: an end trigger delivered to an active Conversation leaves it with
\* isActive and callInitiated false and no socket handle, its socket closing or
\* closed, and 'ended' as the event it emitted last in that step.
C14_EndPostcondition ==
  [][\A c \in ConvIds :
       (conv[c].alloc /\ conv[c].isActive /\ EndTrigger(c))
       => /\ ~conv'[c].isActive
          /\ ~conv'[c].callInitiated
          /\ conv'[c].ws = 0
          /\ wsock'[conv[c].ws].state \in {"CLOSING", "CLOSED"}
          /\ Len(events'[c]) > Len(events[c])
          /\ events'[c][Len(events'[c])] = EndedEvent
          /\ endedEmitted'[c] = Bump(endedEmitted[c])]_vars

\* a Conversation whose socket had opened has ended and let go of the socket
C14_Witness ==
  \E w \in WsIds :
    /\ wsock[w].opened
    /\ wsock[w].state \in {"CLOSING", "CLOSED"}
    /\ ~conv[wsock[w].owner].isActive
    /\ ~conv[wsock[w].owner].callInitiated
    /\ conv[wsock[w].owner].ws = 0
    /\ events[wsock[w].owner] # <<>>
    /\ events[wsock[w].owner][Len(events[wsock[w].owner])] = EndedEvent

\* how often the Conversation emitted 'Connection lost'
LostCount(evs) == Cardinality({i \in 1..Len(evs) : evs[i] = ConnectionLost})

\* C15: 'close' or 'error' on the socket of an active Conversation makes it emit
\* 'Connection lost' and then 'ended' and leaves it ended; no Conversation
\* emits 'Connection lost' more than once, whatever events its socket delivers.
C15_ConnectionLostOnce ==
  [][\A c \in ConvIds :
       /\ ( /\ conv[c].isActive
            /\ conv[c].ws # 0
            /\ (WsClose(conv[c].ws) \/ WsError(conv[c].ws)) )
          => /\ events'[c] = events[c] \o <<ConnectionLost, EndedEvent>>
             /\ ~conv'[c].isActive
             /\ ~conv'[c].callInitiated
       /\ LostCount(events'[c]) <= 1]_vars

\* an open socket reported error and then close, and its Conversation emitted
\* 'Connection lost' once
C15_Witness ==
  \E w \in WsIds :
    /\ wsock[w].opened
    /\ wsock[w].errored
    /\ wsock[w].state = "CLOSED"
    /\ LostCount(events[wsock[w].owner]) = 1

\* the kinds the handler is documented to act on or to skip knowingly
KnownKinds == {"agent_transcript", "agent_response", "conversation_ended", "ping"}

\* every inbound message the runs deliver
AllInbound == InboundMessages \cup {Msg(type, FALSE, <<>>) : type \in EndingKinds}

\* this step delivers message on socket w
InboundStep(w, message) ==
  \/ WsInbound(w, message)
  \/ message.type \in EndingKinds /\ WsMessage(w, message.type)

\* C16: an inbound message of a kind outside KnownKinds changes nothing of the
\* Conversation and its socket and makes it emit nothing.
C16_UnknownIgnored ==
  [][\A w \in WsIds, message \in AllInbound :
       (message.type \notin KnownKinds /\ InboundStep(w, message))
       => UNCHANGED <<conv, wsock, endedEmitted, events, clientOut>>]_vars

\* the message has no text, or a text of nothing but blanks
BlankText(message) ==
  \/ ~message.hasText
  \/ \A i \in 1..Len(message.text) : message.text[i] = Blank

\* C17: an agent_transcript or agent_response with missing, empty or blank text
\* changes nothing and emits nothing; one with other text emits exactly one
\* 'message' event, of role 'callee' with the text as received, and changes
\* nothing else.
C17_EmptyTextSuppressed ==
  [][\A w \in WsIds, message \in InboundMessages :
       ( /\ message.type \in {"agent_transcript", "agent_response"}
         /\ WsInbound(w, message) )
       => /\ UNCHANGED <<conv, wsock, endedEmitted>>
          /\ IF BlankText(message)
             THEN UNCHANGED <<events, clientOut>>
             ELSE LET c == wsock[w].owner
                      e == events'[c][Len(events'[c])]
                  IN /\ Len(events'[c]) = Len(events[c]) + 1
                     /\ SubSeq(events'[c], 1, Len(events[c])) = events[c]
                     /\ e.ev = "message" /\ e.role = "callee" /\ e.text = message.text
                     /\ \A d \in ConvIds \ {c} : events'[d] = events[d]]_vars

\* the texts a sequence of records carries, in order
TextsOf(recs) == [i \in 1..Len(recs) |-> recs[i].text]

\* the texts of the delivered messages that are to be relayed, in order
RelayedTexts(msgs) ==
  TextsOf(SelectSeq(msgs, LAMBDA m : /\ m.type \in {"agent_transcript", "agent_response"}
                                     /\ ~BlankText(m)))

\* the texts of the 'message' events of role 'callee', in order
CalleeTexts(evs) ==
  TextsOf(SelectSeq(evs, LAMBDA e : e.ev = "message" /\ e.role = "callee"))

\* the texts of the operator-message events the relay forwarded to the client
\* (the simulated operator's is not one of them), in order
OperatorTexts(out) ==
  TextsOf(SelectSeq(out, LAMBDA o : /\ o.ev = "operator-message"
                                    /\ ~Simulated(o)))

\* a is b with some elements left out
RECURSIVE IsSubSeq(_, _)
IsSubSeq(a, b) ==
  IF a = <<>> THEN TRUE
  ELSE IF b = <<>> THEN FALSE
  ELSE IF Head(a) = Head(b) THEN IsSubSeq(Tail(a), Tail(b))
  ELSE IsSubSeq(a, Tail(b))

\* a blank inbound text was suppressed and another one was emitted
C17_Witness ==
  \E w \in WsIds :
    /\ \E i \in 1..Len(inbox[w]) :
         /\ inbox[w][i].type = "agent_transcript"
         /\ inbox[w][i].hasText
         /\ inbox[w][i].text = <<Blank, Blank>>
    /\ CalleeTexts(events[wsock[w].owner]) = << <<Blank, "b", Blank>> >>

C19_MessageHasTimestamp ==
  \A c \in ConvIds : \A i \in 1..Len(events[c]) :
    events[c][i].ev = "message" =>
      /\ events[c][i].role \in {"callee", "system"}
      /\ events[c][i].timestamp # {}

\* C20: a sendMessage call on a Conversation that is not active, or has no
\* socket or no conversationId, throws 'Conversation not active'; on an active
\* one whose socket is not open it throws 'WebSocket connection is not ready';
\* in both cases nothing is written; the text is written, to the socket of the
\* Conversation, only when it is active and the socket is open, and then
\* whenever ws.send succeeds.
C20_SendPreconditions ==
  [][\A c \in ConvIds :
       (lastSend'.n = lastSend.n + 1 /\ lastSend'.c = c)
       => LET notActive == ~conv[c].isActive \/ conv[c].ws = 0
                           \/ conv[c].conversationId = 0
              ready == ~notActive /\ wsock[conv[c].ws].state = "OPEN"
          IN /\ notActive => lastSend'.error = "Conversation not active"
             /\ (~notActive /\ ~ready)
                => lastSend'.error = "WebSocket connection is not ready"
             /\ ~ready => written' = written
             /\ (ready /\ lastSend'.outcome = "ok")
                => /\ lastSend'.error = "none"
                   /\ \E text \in UserTexts :
                        written' = [written EXCEPT ![conv[c].ws] = Append(@, text)]
             /\ (ready /\ lastSend'.outcome # "ok")
                => lastSend'.outcome # "none" /\ written' = written
    ]_vars

\* a send on an active Conversation met a socket that was closing
C20_Witness ==
  /\ lastSend.c # 0
  /\ lastSend.error = "WebSocket connection is not ready"
  /\ conv[lastSend.c].isActive
  /\ wsock[conv[lastSend.c].ws].state = "CLOSING"

\* this step is a sendMessage call on Conversation c
SendStep(c) == lastSend'.n = lastSend.n + 1 /\ lastSend'.c = c

\* Conversation c is active with an open socket
Ready(c) ==
  /\ conv[c].isActive /\ conv[c].ws # 0 /\ conv[c].conversationId # 0
  /\ wsock[conv[c].ws].state = "OPEN"

\* C21: when the Conversation is active with an open socket and ws.send
\* fails, sendMessage does not throw and the Conversation emits an 'error'
\* event.
C21_SendFailureIsEvent ==
  [][\A c \in ConvIds :
       (SendStep(c) /\ Ready(c) /\ lastSend'.outcome # "ok")
       => /\ lastSend'.error = "none"
          /\ events'[c] = Append(events[c], ErrorEvent(ConnectionIssue))]_vars

\* this step leaves the fields of Conversation c and its socket as they were
ConversationFrame(c) ==
  /\ conv'[c].isActive = conv[c].isActive
  /\ conv'[c].callInitiated = conv[c].callInitiated
  /\ conv'[c].ws = conv[c].ws
  /\ conv'[c].conversationId = conv[c].conversationId
  /\ wsock' = wsock

\* this step is one of the events that end a call: 'close' or 'error' of a
\* socket, an ending message of the provider, or a client's end-call
CallEndingStep ==
  \/ \E w \in WsIds : WsClose(w) \/ WsError(w)
  \/ \E w \in WsIds, type \in EndingKinds : WsMessage(w, type)
  \/ \E s \in Sessions : SocketEndCall(s)

RegistryWellFormed ==
  \A s \in AllSessions :
    conversations[s] # 0
    => conv[conversations[s]].alloc /\ conv[conversations[s]].sessionId = s

\* what getConversation(s) does in the current state: it returns the stored
\* Conversation and changes nothing, or it stores and returns a new idle one,
\* and a second call returns the same Conversation
GetOrCreate(s) ==
  LET g == getConversation(conversations, conv, s) IN
  IF conversations[s] # 0
  THEN g.c = conversations[s] /\ g.reg = conversations /\ g.conv = conv
  ELSE g.c # 0
       => /\ ~conv[g.c].alloc
          /\ g.reg = [conversations EXCEPT ![s] = g.c]
          /\ g.conv[g.c].sessionId = s
          /\ ~g.conv[g.c].isActive /\ ~g.conv[g.c].callInitiated
          /\ g.conv[g.c].ws = 0 /\ g.conv[g.c].conversationId = 0
          /\ \A d \in ConvIds \ {g.c} : g.conv[d] = conv[d]
          /\ getConversation(g.reg, g.conv, s).c = g.c

\* C23: the registry holds one Conversation per session id, made for it;
\* getConversation returns the stored Conversation or stores and returns a new
\* idle one; and the entry of a session is replaced by another Conversation in
\* no step, so that calls with no removal in between return the same one.
C23_GetOrCreate ==
  [][/\ RegistryWellFormed /\ RegistryWellFormed'
     /\ \A s \in AllSessions : GetOrCreate(s)
     /\ \A s \in AllSessions :
          (conversations[s] # 0 /\ conversations'[s] # 0)
          => conversations'[s] = conversations[s]]_vars

\* a second start-call of a session met the Conversation that the first one
\* stored and marked
C23_Witness ==
  /\ requests = 2
  /\ resp.kind = "start-call" /\ resp.error = "Call already initiated"
  /\ conversations[resp.s] # 0
  /\ conv[conversations[resp.s]].callInitiated

\* Conversation c of heap cv is as end() leaves it
EndedIn(cv, c) == ~cv[c].isActive /\ ~cv[c].callInitiated /\ cv[c].ws = 0

Ended(c) == EndedIn(conv, c)

\* a step that runs the registry's cleanupAllConversations
CleanupStep ==
  \/ IoClosed
  \/ \E signal \in Signals, io \in BOOLEAN : Shutdown(signal, "part_003", io)

\* C24: an end-call that passes the limiter ends and removes the Conversation
\* registered under the id, and changes no Conversation, socket or entry when
\* none is registered; after cleanupAllConversations the registry is empty and
\* every Conversation that was registered is inactive, not initiated and
\* without a channel.
C24_RemoveAndCleanup ==
  [][/\ \A s \in AllSessions, ip \in ClientIPs :
          (EndCall(s, ip, MaxReports) /\ resp'.status = 200)
          => IF conversations[s] # 0
             THEN /\ conversations' = [conversations EXCEPT ![s] = 0]
                  /\ EndedIn(conv', conversations[s])
                  /\ endedEmitted' = [endedEmitted EXCEPT ![conversations[s]] = Bump(@)]
             ELSE UNCHANGED <<conversations, conv, wsock, endedEmitted>>
     /\ CleanupStep
        => \A s \in AllSessions :
             /\ conversations'[s] = 0
             /\ conversations[s] # 0 => EndedIn(conv', conversations[s])]_vars

\* the cleanup has run over two registered Conversations: both requests made
\* one, none was an end-call, and the registry is empty with both ended
C24_Witness ==
  /\ requests = 2
  /\ proc.build = "part_003"
  /\ \A s \in AllSessions : conversations[s] = 0
  /\ Cardinality({c \in ConvIds : conv[c].alloc /\ Ended(c) /\ endedEmitted[c] > 0}) = 2

\* C25: after a client's 'end-call' on the socket the Conversation of the
\* session is ended and the registry holds no entry for the session.
C25_SocketEndCallRemoves ==
  [][\A s \in Sessions :
       SocketEndCall(s)
       => /\ conversations'[s] = 0
          /\ conversations[s] # 0 => EndedIn(conv', conversations[s])]_vars

\* C26: when a signal or fault runs the cleanup handler, the sweep timer is
\* stopped and every registered Conversation is ended and evicted, and the
\* process has not exited; the exit is a later step, on the exit timer that the
\* handler set.
C26_ShutdownOrdering ==
  [][/\ \A signal \in Signals, build \in Builds, io \in BOOLEAN :
          Shutdown(signal, build, io)
          => /\ ~proc'.cleanupInterval
             /\ \A s \in AllSessions :
                  /\ conversations'[s] = 0
                  /\ conversations[s] # 0 => EndedIn(conv', conversations[s])
             /\ ~proc'.exited /\ proc'.exitTimers > 0
     /\ (~proc.exited /\ proc'.exited) => proc.exitTimers > 0 /\ ~proc.cleanupInterval]_vars

\* the intake has taken the report: it was neither turned away by the limiter
\* nor answered with a validation error
ReportAccepted(s, ip, report) ==
  /\ IntakeReport(s, ip, report, MaxReports)
  /\ ~(resp'.status = 429 /\ resp'.error = "Too many emergency requests")
  /\ resp'.status # 400

\* C27: a report is accepted only if its description has 10 to 280 characters,
\* its serviceNeeded is police, fire or ambulance, and a location or a
\* non-null manualAddress is present.
C27_ReportAcceptance ==
  [][\A s \in IntakeSessions, ip \in ClientIPs, report \in Reports :
       ReportAccepted(s, ip, report)
       => /\ report.descriptionLength >= 10 /\ report.descriptionLength <= 280
          /\ report.serviceNeeded \in {"police", "fire", "ambulance"}
          /\ report.hasLocation \/ report.manualAddress = "string"]_vars

\* a report that the validation turns down: a description too short or too
\* long, a service that is not offered, or no manualAddress key
InvalidReport(report) ==
  \/ report.descriptionLength < 10
  \/ report.descriptionLength > 280
  \/ report.serviceNeeded \notin {"police", "fire", "ambulance"}
  \/ report.manualAddress = "absent"

\* C28: the intake answers a report that fails validation with an error, and
\* that request registers no Conversation, records no admission in the global
\* or per-session call records, and starts no call and no channel.
C28_InvalidStaysAtIntake ==
  [][\A s \in IntakeSessions, ip \in ClientIPs, report \in Reports :
       (IntakeReport(s, ip, report, MaxReports) /\ InvalidReport(report))
       => /\ resp'.status \in {400, 429}
          /\ resp'.error # "none"
          /\ UNCHANGED <<conversations, conv, globalCalls, sessionCalls, admitted,
                         grants, inflight, wsock>>]_vars

\* an invalid report was answered 400 while the call of an earlier, valid one
\* was being set up, and that call is the only one on record
C28_Witness ==
  /\ resp.kind = "emergency" /\ resp.status = 400 /\ resp.error = "Invalid request data"
  /\ requests = 2
  /\ Len(globalCalls) = 1
  /\ Cardinality(inflight) = 1
  /\ Cardinality({s \in AllSessions : conversations[s] # 0}) = 1

\* what a rejection names as its reason: the two request limiters, the state
\* guards of canInitiateCall and the limits of isRateLimited
RejectionReasons ==
  {"Too many API calls", "Too many emergency requests",
   "Call already active", "Call already initiated",
   "Hourly call limit exceeded", "Minute call limit exceeded",
   "Call cooldown period active", "Session call limit exceeded"}

\* a request is answered 429
RejectionStep == requests' = requests + 1 /\ resp'.status = 429

\* C29: a request rejected by the limiter of its route or by canInitiateCall
\* leaves no handler suspended in startCall and opens no channel, marks no
\* call as initiated and records none, and its response names the reason and
\* carries a retryAfter.
C29_NoCallOnRejection ==
  [][RejectionStep
     => /\ inflight' = inflight /\ wsock' = wsock
        /\ admitted' = admitted /\ sessionCalls' = sessionCalls
        /\ \A c \in ConvIds : conv'[c].callInitiated = (conv[c].alloc /\ conv[c].callInitiated)
        /\ resp'.error \in RejectionReasons
        /\ resp'.retryAfter >= 0]_vars

\* the limiter of the start-call route turned a request away while an
\* admitted call was on record
C29_Witness ==
  /\ resp.status = 429 /\ resp.error = "Too many API calls" /\ resp.retryAfter >= 0
  /\ Len(admitted) > 0

\* the channel of Conversation c failed before it ever opened
FailedToOpen(c) ==
  \E w \in WsIds :
    /\ wsock[w].owner = c
    /\ ~wsock[w].opened
    /\ wsock[w].errored \/ wsock[w].state \in {"CLOSING", "CLOSED"}

\* C30: the intake answers aiCallStatus 'failed' with fallbackMode when the
\* call could not be initiated or when the channel failed to open, and so
\* 'active' only for a channel that has not failed.
C30_IntakeStatusReflectsOutcome ==
  [][\A h \in inflight :
       /\ IntakeCallFailed(h)
          => resp'.aiCallStatus = "failed" /\ resp'.fallbackMode
       /\ \A outcome \in SendOutcomes :
            (IntakeRespond(h, outcome) /\ FailedToOpen(h.c))
            => resp'.aiCallStatus = "failed" /\ resp'.fallbackMode]_vars

\* C31: every response of the two rate-limited endpoints carries the headers
\* X-RateLimit-Remaining, X-RateLimit-Reset and X-RateLimit-Limit, the
\* rejections of the limiter and of the admission included.
C31_HeadersOnEveryResponse ==
  resp.status # 0 => RateLimitHeaders \subseteq resp.headers

\* the requests of identifier id that its limiter has let pass, as the buckets
\* still in the store count them
RECURSIVE CountIn(_, _, _)
CountIn(store, id, keys) ==
  IF keys = {} THEN 0
  ELSE LET k == CHOOSE x \in keys : TRUE IN
       (IF k[1] = id THEN store[k].count ELSE 0) + CountIn(store, id, keys \ {k})

AcceptedInStore(id) == CountIn(rateLimitStore, id, DOMAIN rateLimitStore)

\* C32: within an hour one client address gets at most 5 requests accepted by
\* the emergency endpoint and at most 10 by the ElevenLabs endpoint, or twice
\* as many across a window boundary.
C32_DocumentedLimits ==
  now < HourMs
  => \A ip \in ClientIPs :
       /\ AcceptedInStore(<<"emergency", ip>>) <= 2 * DocEmergencyPerHour
       /\ AcceptedInStore(<<"elevenlabs", ip>>) <= 2 * DocElevenLabsPerHour

\* C33: the intake validates a report before it asks the caller's limiter, so
\* a report that fails validation is answered with the validation error and
\* leaves the caller's rate-limit counter untouched.
C33_ValidateBeforeRateLimit ==
  [][\A s \in IntakeSessions, ip \in ClientIPs, report \in Reports :
       (IntakeReport(s, ip, report, MaxReports) /\ InvalidReport(report))
       => /\ rateLimitStore' = rateLimitStore
          /\ resp'.status = 400]_vars

C35_SweepTimerIdempotent ==
  [][/\ proc'.sweepTimers <= 1
     /\ StartCleanup => proc'.sweepTimers = 1
     /\ StopCleanup => proc'.sweepTimers = 0]_vars

\* started at module load, stopped and started again, and started once more
\* while running: one timer is alive
C35_Witness ==
  /\ proc.starts = 3
  /\ proc.cleanupInterval
  /\ proc.sweepTimers = 1

\* C36: the sweep deletes only buckets whose resetTime lies before its firing
\* and leaves the others as they are, and every checkRateLimit call returns
\* what it would return had the sweep never fired.
C36_SweepTransparent ==
  [][/\ \A k \in DOMAIN rateLimitStore :
          IF k \in DOMAIN rateLimitStore'
          THEN rateLimitStore'[k].resetTime = rateLimitStore[k].resetTime
          ELSE LastSweepAt(now') > rateLimitStore[k].resetTime
     /\ \A id \in RLIdentifiers :
          RLCheckTwice(id)
          => /\ rlLast'.allowed = rlUnswept'.allowed
             /\ rlLast'.remaining = rlUnswept'.remaining
             /\ rlLast'.resetTime = rlUnswept'.resetTime]_vars

\* the sweep has fired inside a window and has deleted a bucket, and a call
\* after it was counted on the bucket that was begun before it
C36_Witness ==
  /\ rlLast.id # "none"
  /\ rlLast.at >= SweepMs
  /\ DOMAIN rateLimitStore # DOMAIN rlUnswept.store
  /\ rlLast.resetTime - rlW < SweepMs
  /\ rlLast.remaining < rlN - 1

\* C37: every Conversation that holds a channel or is active is the entry of
\* the registry for its session id.
C37_NoOrphanedChannel ==
  \A c \in ConvIds :
    (conv[c].alloc /\ (conv[c].ws # 0 \/ conv[c].isActive))
    => conversations[conv[c].sessionId] = c

\* C38: in the sequence of events a Conversation emits, nothing follows its
\* first 'ended': no 'message' and no second 'ended'.
C38_SilenceAfterEnded ==
  \A c \in ConvIds :
    \A i \in 1..Len(events[c]) :
      events[c][i].ev = "ended" => i = Len(events[c])

\* all the events the Conversations have emitted
RECURSIVE EventsOf(_)
EventsOf(cs) ==
  IF cs = {} THEN <<>>
  ELSE LET c == CHOOSE x \in cs : TRUE IN events[c] \o EventsOf(cs \ {c})

\* C39: the client socket is sent at most one operator-message for each
\* 'message' event with role 'callee' and at most one call-ended for each end
\* of a Conversation, however often it has joined.
C39_AtMostOnceRelay ==
  /\ Len(SelectSeq(clientOut, LAMBDA o : o.ev = "operator-message" /\ ~Simulated(o)))
       <= Len(SelectSeq(EventsOf(ConvIds),
                        LAMBDA e : e.ev = "message" /\ e.role = "callee"))
  /\ Len(SelectSeq(clientOut, LAMBDA o : o.ev = "call-ended"))
       <= Len(SelectSeq(EventsOf(ConvIds), LAMBDA e : e.ev = "ended"))

\* the admissions of the history that count toward the hourly ceiling at time t
\* are the ones the global list holds, and every session's count is the number
\* of its admissions
AttemptsCounted ==
  /\ WithinHour(globalCalls, now) = WithinHour(admitted, now)
  /\ \A s \in AllSessions :
       grants[s] > 0 => /\ s \in DOMAIN sessionCalls
                        /\ sessionCalls[s].count = grants[s]

\* in a step, a timestamp leaves the global list only at age minAge or more,
\* and no session's count goes down
LeavesOnlyAged(minAge) ==
  /\ \A ts \in {globalCalls[i] : i \in 1..Len(globalCalls)} :
       now' - ts < minAge
       => Len(SelectSeq(globalCalls', LAMBDA x : x = ts))
            >= Len(SelectSeq(globalCalls, LAMBDA x : x = ts))
  /\ \A s \in DOMAIN sessionCalls :
       /\ s \in DOMAIN sessionCalls'
       /\ sessionCalls'[s].count >= sessionCalls[s].count

====
